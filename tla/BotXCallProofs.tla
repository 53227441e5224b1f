--------------------------- MODULE BotXCallProofs ---------------------------
(***************************************************************************)
(* Proofs about BotXCall, for any threads, methods, answers, pool size and *)
(* retries.  All that threads share is the pool: the invariant has a part  *)
(* about one thread's values, and one about who holds a connection.        *)
(***************************************************************************)
EXTENDS BotXCall, FiniteSetTheorems, TLAPS

CurrentOf(m, e) == IF e = "token" THEN TokenMethod ELSE m

SizeOf(a) == IF a.status = 204 THEN 0 ELSE FileSize

Holds(p, m, e) ==
  \/ p \in {"sending", "waiting"}
  \/ p \in {"answered", "streaming"} /\ CurrentOf(m, e).stream

(* A thread at p executes m, in exchange e, was answered a, its request    *)
(* received n times, its buffer is b and its outcome o.                    *)
Local(p, m, e, a, n, b, o) ==
  /\ e = "token" => n = 0
  /\ m.verb = "POST" => n <= 1
  /\ m.verb = "POST" /\ p \in {"leasing", "sending"} => n = 0
  /\ p \in {"leasing", "sending"} => a = NoAnswer
  /\ p \in {"waiting", "answered", "streaming"} => a # NoAnswer /\ (e = "api" => n > 0)
  /\ p # "idle" => o = "none" /\ ~b.rewound
  /\ p = "streaming" => e = "api" /\ m.stream /\ Refusal(m, a) = "none"
  /\ o = "ok" => e = "api" /\ n > 0 /\ a # NoAnswer /\ Refusal(m, a) = "none"
  /\ m.stream => (o = "ok" <=> b.rewound /\ b.chunks = SizeOf(a))
  /\ p = "idle" /\ a # NoAnswer =>
       \/ Refusal(CurrentOf(m, e), a) \in {"none", o}
       \/ CurrentOf(m, e).stream /\ o = "HTTPError"

LocalInv ==
  \A t \in Threads :
    Local(pc[t], method[t], exchange[t], answer[t], received[t], buffer[t], outcome[t])

Holders ==
  /\ Cardinality(leased) <= PoolSize
  /\ \A t \in Threads : t \in leased <=> Holds(pc[t], method[t], exchange[t])

IInv == TypeOK /\ LocalInv /\ Holders

-----------------------------------------------------------------------------
(* What a refusal is, given that handlers raise: a 2xx that no handler     *)
(* knows is let through, and nothing else is.                              *)
LEMMA Refusals ==
  ASSUME NEW m \in Methods \union {TokenMethod}, NEW a \in AnswerSet
  PROVE  /\ Refusal(m, a) # "ok"
         /\ Refusal(m, a) = "none" <=>
              a.status \notin DOMAIN m.handlers /\ Succeeded(a.status)
<1>1. a.body \in Bodies
  BY BotXCallAssumption
<1>2. CASE a.status \in DOMAIN m.handlers
  <2>1. Refusal(m, a) = Handled(m.handlers[a.status], a.body)
    BY <1>2 DEF Refusal
  <2>2. Handled(m.handlers[a.status], a.body) \notin {"none", "ok"}
    BY <1>1, <1>2, BotXCallAssumption
  <2> QED
    BY <1>2, <2>1, <2>2
<1>3. CASE a.status \notin DOMAIN m.handlers /\ Succeeded(a.status)
  BY <1>3 DEF Refusal
<1>4. CASE a.status \notin DOMAIN m.handlers /\ ~Succeeded(a.status)
  BY <1>4 DEF Refusal
<1> QED
  BY <1>2, <1>3, <1>4

(* The methods at hand, and the answer of a thread that has one.           *)
LEMMA AtHand ==
  ASSUME TypeOK, NEW t \in Threads
  PROVE  /\ Current(t) \in Methods \union {TokenMethod}
         /\ Current(t) = CurrentOf(method[t], exchange[t])
         /\ BodySize(t) = SizeOf(answer[t])
         /\ BodySize(t) \in 0..FileSize
         /\ answer[t] # NoAnswer => answer[t] \in AnswerSet
BY BotXCallAssumption DEF TypeOK, Current, CurrentOf, BodySize, SizeOf

(* A step of thread t leaves the other threads' values alone: it is enough *)
(* to look at t's.                                                         *)
LEMMA OneThread ==
  ASSUME IInv, NEW t \in Threads,
         \A u \in Threads \ {t} :
           /\ pc'[u] = pc[u]             /\ method'[u] = method[u]
           /\ exchange'[u] = exchange[u] /\ answer'[u] = answer[u]
           /\ received'[u] = received[u] /\ buffer'[u] = buffer[u]
           /\ outcome'[u] = outcome[u],
         Local(pc'[t], method'[t], exchange'[t], answer'[t], received'[t],
               buffer'[t], outcome'[t])
  PROVE  LocalInv'
<1> SUFFICES ASSUME NEW u \in Threads
             PROVE  Local(pc'[u], method'[u], exchange'[u], answer'[u],
                          received'[u], buffer'[u], outcome'[u])
  BY DEF LocalInv
<1>1. CASE u = t
  BY <1>1
<1>2. CASE u # t
  <2>1. Local(pc[u], method[u], exchange[u], answer[u], received[u], buffer[u], outcome[u])
    BY DEF IInv, LocalInv
  <2> QED
    BY <1>2, <2>1
<1> QED
  BY <1>1, <1>2

(* Connections are counted: taking one needs a free one, giving one back   *)
(* never hurts.                                                            *)
LEMMA Counted ==
  ASSUME TypeOK, Cardinality(leased) <= PoolSize, NEW t \in Threads
  PROVE  /\ Cardinality(leased \ {t}) <= PoolSize
         /\ Cardinality(leased) < PoolSize => Cardinality(leased \union {t}) <= PoolSize
<1>1. IsFiniteSet(leased)
  BY FS_Subset, BotXCallAssumption DEF TypeOK
<1>2. Cardinality(leased) \in Nat
  BY <1>1, FS_CardinalityType
<1>3. PoolSize \in Nat
  BY BotXCallAssumption
<1>4. /\ Cardinality(leased \ {t}) =
           IF t \in leased THEN Cardinality(leased) - 1 ELSE Cardinality(leased)
      /\ Cardinality(leased \union {t}) =
           IF t \in leased THEN Cardinality(leased) ELSE Cardinality(leased) + 1
  BY <1>1, FS_RemoveElement, FS_AddElement, Zenon
<1>5. CASE t \in leased
  BY <1>2, <1>3, <1>4, <1>5
<1>6. CASE t \notin leased
  BY <1>2, <1>3, <1>4, <1>6
<1> QED
  BY <1>5, <1>6

LEMMA Initially == Init => IInv
<1> SUFFICES ASSUME Init PROVE IInv
  OBVIOUS
<1>1. TypeOK
  <2>1. Empty \in [chunks : 0..FileSize, rewound : BOOLEAN]
    BY BotXCallAssumption DEF Empty
  <2>2. "none" \in Outcomes
    BY DEF Outcomes
  <2>3. Retries \in 0..Retries
    BY BotXCallAssumption
  <2> QED
    BY <2>1, <2>2, <2>3 DEF Init, TypeOK
<1>2. LocalInv
  <2> SUFFICES ASSUME NEW t \in Threads
               PROVE  Local("idle", method[t], "api", NoAnswer, 0, Empty, "none")
    BY DEF Init, LocalInv
  <2>1. ~Empty.rewound
    BY DEF Empty
  <2> QED
    BY <2>1 DEF Local
<1>3. Holders
  BY FS_EmptySet, BotXCallAssumption DEF Init, Holders, Holds
<1> QED
  BY <1>1, <1>2, <1>3 DEF IInv

(* What the steps preserve, one lemma for each part of the invariant.      *)
LEMMA TypeSteps ==
  ASSUME IInv, NEW t \in Threads, CallStep(t)
  PROVE  TypeOK'
<1> USE BotXCallAssumption DEF Goto, Release, End
<1>0. TypeOK
  BY DEF IInv
<1>1. {"none", "ok", "BotXNetworkError", "HTTPError", "OSError"} \subseteq Outcomes
  BY DEF Outcomes, Foreign
<1>2. ASSUME answer[t] # NoAnswer
      PROVE  /\ Refusal(Current(t), answer[t]) \in Outcomes
             /\ Conclusion(Current(t).model, answer[t].body) \in Outcomes
  BY <1>0, <1>2, AtHand DEF Outcomes
<1>3. pc[t] = "answered" => answer[t] # NoAnswer
  BY DEF IInv, LocalInv, Local
<1> HIDE DEF Goto, Release, End
<1>4. ASSUME NEW place \in {"idle", "leasing", "sending", "waiting", "answered", "streaming"},
             Goto(t, place)
      PROVE  pc' \in [Threads -> {"idle", "leasing", "sending", "waiting", "answered",
                                  "streaming"}]
  BY <1>0, <1>4 DEF Goto, TypeOK
<1>5. ASSUME NEW o \in Outcomes, End(t, o)
      PROVE  /\ pc' \in [Threads -> {"idle", "leasing", "sending", "waiting", "answered",
                                     "streaming"}]
             /\ outcome' \in [Threads -> Outcomes]
  BY <1>0, <1>4, <1>5 DEF End, TypeOK
<1>6. Release(t) => leased' \in SUBSET Threads
  BY <1>0 DEF Release, TypeOK
<1>7. ASSUME NEW repeatable, TransportError(t, repeatable)
      PROVE  /\ pc' \in [Threads -> {"idle", "leasing", "sending", "waiting", "answered",
                                     "streaming"}]
             /\ outcome' \in [Threads -> Outcomes]
             /\ retries' \in [Threads -> 0..Retries]
             /\ leased' \in SUBSET Threads
  BY <1>0, <1>1, <1>4, <1>5, <1>6, <1>7 DEF TransportError, Again, TypeOK
<1>8. CASE Lease(t)
  BY <1>0, <1>4, <1>8 DEF Lease, TypeOK
<1>9. CASE ServerAnswers(t)
  BY <1>0, <1>4, <1>9 DEF ServerAnswers, TypeOK
<1>10. CASE ConnectFails(t)
  BY <1>0, <1>7, <1>10 DEF ConnectFails, TypeOK
<1>11. CASE AnswerLost(t)
  BY <1>0, <1>7, <1>11 DEF AnswerLost, TypeOK
<1>12. CASE ServerAsksToWait(t)
  BY <1>0, <1>4, <1>6, <1>12 DEF ServerAsksToWait, Again, TypeOK
<1>13. CASE ReceiveAnswer(t)
  BY <1>0, <1>4, <1>6, <1>13 DEF ReceiveAnswer, TypeOK
<1>14. CASE RaiseForStatus(t)
  BY <1>0, <1>1, <1>2, <1>3, <1>5, <1>6, <1>14 DEF RaiseForStatus, TypeOK
<1>15. CASE UseToken(t)
  BY <1>0, <1>4, <1>15 DEF UseToken, TypeOK
<1>16. CASE ExtractModel(t)
  BY <1>0, <1>2, <1>3, <1>5, <1>16 DEF ExtractModel, Concluded, TypeOK
<1>17. CASE BeginStream(t)
  BY <1>0, <1>4, <1>17 DEF BeginStream, TypeOK
<1>18. CASE WriteChunk(t)
  BY <1>0, <1>18, AtHand DEF WriteChunk, TypeOK
<1>19. CASE StreamBreaks(t)
  BY <1>0, <1>1, <1>5, <1>6, <1>19 DEF StreamBreaks, TypeOK
<1>20. CASE EndStream(t)
  BY <1>0, <1>1, <1>5, <1>6, <1>20 DEF EndStream, TypeOK
<1> QED
  BY <1>8, <1>9, <1>10, <1>11, <1>12, <1>13, <1>14, <1>15, <1>16, <1>17, <1>18, <1>19, <1>20
  DEF CallStep

(* Connections: the steps that take one, and those that give one back.     *)
LEMMA HolderSteps ==
  ASSUME IInv, NEW t \in Threads, CallStep(t)
  PROVE  Holders'
<1> DEFINE Held(u) == Holds(pc[u], method[u], exchange[u])
<1>0. TypeOK /\ Cardinality(leased) <= PoolSize /\ \A u \in Threads : u \in leased <=> Held(u)
  BY DEF IInv, Holders
<1>1. ASSUME \/ leased' \in {leased, leased \ {t}}
             \/ leased' = leased \union {t} /\ Cardinality(leased) < PoolSize
      PROVE  Cardinality(leased') <= PoolSize
  BY <1>0, <1>1, Counted
<1>2. ASSUME \A u \in Threads \ {t} :
               /\ pc'[u] = pc[u] /\ method'[u] = method[u] /\ exchange'[u] = exchange[u]
               /\ u \in leased' <=> u \in leased,
             t \in leased' <=> Holds(pc'[t], method'[t], exchange'[t])
      PROVE  \A u \in Threads : u \in leased' <=> Holds(pc'[u], method'[u], exchange'[u])
  <2> SUFFICES ASSUME NEW u \in Threads
               PROVE  u \in leased' <=> Holds(pc'[u], method'[u], exchange'[u])
    OBVIOUS
  <2>1. CASE u = t
    BY <1>2, <2>1
  <2>2. CASE u # t
    BY <1>0, <1>2, <2>2
  <2> QED
    BY <2>1, <2>2
<1>3. ASSUME Cardinality(leased') <= PoolSize,
             \A u \in Threads : u \in leased' <=> Holds(pc'[u], method'[u], exchange'[u])
      PROVE  Holders'
  BY <1>3 DEF Holders
<1>4. Current(t) = CurrentOf(method[t], exchange[t])
  BY <1>0, AtHand
<1>5. t \in leased <=> Holds(pc[t], method[t], exchange[t])
  BY <1>0
<1> HIDE DEF Held
<1>6. CASE Lease(t)
  <2> USE <1>6 DEF Lease, Goto
  <2>1. t \in leased' <=> Holds(pc'[t], method'[t], exchange'[t])
    BY <1>0, <1>5 DEF TypeOK, Holds
  <2>2. \A u \in Threads : u \in leased' <=> Holds(pc'[u], method'[u], exchange'[u])
    BY <1>0, <1>2, <2>1 DEF TypeOK
  <2>3. Cardinality(leased') <= PoolSize
    BY <1>1
  <2> QED
    BY <1>3, <2>2, <2>3
<1>7. ASSUME NEW place \in {"waiting", "idle", "leasing", "answered", "streaming"},
             Goto(t, place), leased' \in {leased, leased \ {t}},
             method' = method, exchange' = exchange,
             t \in leased' <=> Holds(place, method[t], exchange[t])
      PROVE  Holders'
  <2>1. pc'[t] = place /\ \A u \in Threads \ {t} : pc'[u] = pc[u]
    BY <1>0, <1>7 DEF Goto, TypeOK
  <2>2. \A u \in Threads \ {t} : u \in leased' <=> u \in leased
    BY <1>7
  <2>3. t \in leased' <=> Holds(pc'[t], method'[t], exchange'[t])
    BY <1>7, <2>1
  <2>4. \A u \in Threads : u \in leased' <=> Holds(pc'[u], method'[u], exchange'[u])
    BY <1>2, <1>7, <2>1, <2>2, <2>3
  <2>5. leased' = leased \/ leased' = leased \ {t}
    BY <1>7
  <2>6. Cardinality(leased') <= PoolSize
    BY <1>0, <2>5, Counted
  <2> QED
    BY <1>3, <2>4, <2>6
<1>8. ASSUME NEW place \in {"idle", "leasing"}, Goto(t, place), Release(t),
             method' = method, exchange' = exchange
      PROVE  Holders'
  <2>1. ~ Holds(place, method[t], exchange[t])
    BY <1>8 DEF Holds
  <2> QED
    BY <1>7, <1>8, <2>1 DEF Release
<1>9. ASSUME NEW repeatable, TransportError(t, repeatable),
             method' = method, exchange' = exchange
      PROVE  Holders'
  BY <1>8, <1>9 DEF TransportError, Again, End
<1>10. CASE ServerAnswers(t)
  BY <1>5, <1>7, <1>10 DEF ServerAnswers, Holds
<1>11. CASE ConnectFails(t)
  BY <1>9, <1>11 DEF ConnectFails
<1>12. CASE AnswerLost(t)
  BY <1>9, <1>12 DEF AnswerLost
<1>13. CASE ServerAsksToWait(t)
  BY <1>8, <1>13 DEF ServerAsksToWait, Again
<1>14. CASE ReceiveAnswer(t)
  BY <1>4, <1>5, <1>7, <1>14 DEF ReceiveAnswer, Release, Holds
<1>15. CASE RaiseForStatus(t)
  BY <1>8, <1>15 DEF RaiseForStatus, End
<1>16. CASE UseToken(t)
  <2> USE <1>16 DEF UseToken, Goto
  <2>1. t \notin leased
    BY <1>0, <1>4, <1>5, BotXCallAssumption DEF Holds, CurrentOf
  <2>2. t \in leased' <=> Holds(pc'[t], method'[t], exchange'[t])
    BY <1>0, <2>1 DEF TypeOK, Holds
  <2> QED
    BY <1>0, <1>1, <1>2, <1>3, <2>2 DEF TypeOK
<1>17. CASE ExtractModel(t)
  BY <1>4, <1>5, <1>7, <1>17 DEF ExtractModel, End, Holds
<1>18. CASE BeginStream(t)
  BY <1>4, <1>5, <1>7, <1>18 DEF BeginStream, Holds
<1>19. CASE WriteChunk(t)
  BY <1>0, <1>3, <1>19 DEF WriteChunk, Held
<1>20. CASE StreamBreaks(t)
  BY <1>8, <1>20 DEF StreamBreaks, End
<1>21. CASE EndStream(t)
  BY <1>8, <1>21 DEF EndStream, End
<1> QED
  BY <1>6, <1>10, <1>11, <1>12, <1>13, <1>14, <1>15, <1>16, <1>17, <1>18, <1>19, <1>20, <1>21
  DEF CallStep

(* One thread's values, action by action.                                  *)
LEMMA LocalSteps ==
  ASSUME IInv, NEW t \in Threads, CallStep(t)
  PROVE  LocalInv'
<1>0. /\ TypeOK
      /\ Local(pc[t], method[t], exchange[t], answer[t], received[t], buffer[t], outcome[t])
  BY DEF IInv, LocalInv
<1>1. ASSUME /\ \A u \in Threads \ {t} :
                  /\ pc'[u] = pc[u]             /\ method'[u] = method[u]
                  /\ exchange'[u] = exchange[u] /\ answer'[u] = answer[u]
                  /\ received'[u] = received[u] /\ buffer'[u] = buffer[u]
                  /\ outcome'[u] = outcome[u],
             Local(pc'[t], method'[t], exchange'[t], answer'[t], received'[t],
                   buffer'[t], outcome'[t])
      PROVE  LocalInv'
  BY <1>1, OneThread
<1>2. /\ Current(t) = CurrentOf(method[t], exchange[t])
      /\ Current(t) \in Methods \union {TokenMethod}
      /\ BodySize(t) = SizeOf(answer[t])
      /\ answer[t] # NoAnswer => answer[t] \in AnswerSet
      /\ exchange[t] \in {"token", "api"}
      /\ received[t] \in Nat
  BY <1>0, AtHand DEF TypeOK
<1>3. answer[t] # NoAnswer =>
        /\ Refusal(Current(t), answer[t]) # "ok"
        /\ Refused(t) <=> Refusal(CurrentOf(method[t], exchange[t]), answer[t]) # "none"
  BY <1>2, Refusals DEF Refused
<1>4. ~TokenMethod.stream
  BY BotXCallAssumption
<1>5. ASSUME NEW place, Goto(t, place)
      PROVE  pc'[t] = place /\ \A u \in Threads \ {t} : pc'[u] = pc[u]
  BY <1>0, <1>5 DEF Goto, TypeOK
<1>6. ASSUME NEW o, End(t, o)
      PROVE  /\ pc'[t] = "idle" /\ outcome'[t] = o
             /\ \A u \in Threads \ {t} : pc'[u] = pc[u] /\ outcome'[u] = outcome[u]
  BY <1>0, <1>5, <1>6 DEF End, TypeOK
<1>7. CASE Lease(t)
  <2> USE <1>7 DEF Lease
  <2>1. Local(pc'[t], method'[t], exchange'[t], answer'[t], received'[t], buffer'[t], outcome'[t])
    BY <1>0, <1>5 DEF Local
  <2> QED
    BY <1>1, <1>5, <2>1
<1>8. CASE ServerAnswers(t)
  <2> USE <1>8 DEF ServerAnswers
  <2>1. PICK a \in AnswerSet : answer' = [answer EXCEPT ![t] = a]
    OBVIOUS
  <2>2. a # NoAnswer /\ answer'[t] = a /\ \A u \in Threads \ {t} : answer'[u] = answer[u]
    BY <1>0, <2>1, BotXCallAssumption DEF TypeOK
  <2>3. /\ received'[t] = IF exchange[t] = "api" THEN received[t] + 1 ELSE received[t]
        /\ \A u \in Threads \ {t} : received'[u] = received[u]
    BY <1>0 DEF TypeOK
  <2>4. ~buffer[t].rewound /\ outcome[t] = "none"
    BY <1>0 DEF Local
  <2>5. Local("waiting", method[t], exchange[t], a, received'[t], buffer[t], outcome[t])
    BY <1>0, <1>2, <2>2, <2>3, <2>4 DEF Local
  <2> QED
    BY <1>1, <1>5, <2>2, <2>3, <2>5
<1>9. ASSUME NEW repeatable, TransportError(t, repeatable),
             pc[t] \in {"sending", "waiting"}, answer' = [answer EXCEPT ![t] = NoAnswer],
             repeatable => pc[t] = "sending" \/ Idempotent(t),
             UNCHANGED <<method, exchange, received, buffer>>
      PROVE  LocalInv'
  <2>1. answer'[t] = NoAnswer /\ \A u \in Threads \ {t} : answer'[u] = answer[u]
    BY <1>0, <1>9 DEF TypeOK
  <2>2. ~buffer[t].rewound /\ outcome[t] = "none"
    BY <1>0, <1>9 DEF Local
  <2>3. CASE repeatable /\ Again(t)
    <3>1. method[t].verb = "POST" => received[t] = 0
      BY <1>0, <1>2, <1>9, <2>3 DEF Local, Idempotent, CurrentOf
    <3>2. Local("leasing", method[t], exchange[t], NoAnswer, received[t], buffer[t], outcome[t])
      BY <1>0, <1>9, <2>2, <3>1 DEF Local
    <3> QED
      BY <1>1, <1>5, <1>9, <2>1, <2>3, <3>2 DEF Again
  <2>4. CASE End(t, "BotXNetworkError")
    <3>1. Local("idle", method[t], exchange[t], NoAnswer, received[t], buffer[t],
                "BotXNetworkError")
      BY <1>0, <1>9, <2>2 DEF Local
    <3> QED
      BY <1>1, <1>6, <1>9, <2>1, <2>4, <3>1
  <2> QED
    BY <1>9, <2>3, <2>4 DEF TransportError
<1>10. CASE ConnectFails(t)
  <2>1. answer[t] = NoAnswer
    BY <1>0, <1>10 DEF ConnectFails, Local
  <2>2. answer' = [answer EXCEPT ![t] = NoAnswer]
    BY <1>0, <1>10, <2>1 DEF ConnectFails, TypeOK
  <2> QED
    BY <1>9, <1>10, <2>2 DEF ConnectFails
<1>11. CASE AnswerLost(t)
  BY <1>9, <1>11 DEF AnswerLost
<1>12. CASE ServerAsksToWait(t)
  <2> USE <1>12 DEF ServerAsksToWait, Again
  <2>1. answer'[t] = NoAnswer /\ \A u \in Threads \ {t} : answer'[u] = answer[u]
    BY <1>0 DEF TypeOK
  <2>2. method[t].verb = "POST" => received[t] = 0
    BY <1>0, <1>2 DEF Local, Idempotent, CurrentOf
  <2>3. ~buffer[t].rewound /\ outcome[t] = "none"
    BY <1>0 DEF Local
  <2>4. Local("leasing", method[t], exchange[t], NoAnswer, received[t], buffer[t], outcome[t])
    BY <1>0, <2>2, <2>3 DEF Local
  <2> QED
    BY <1>1, <1>5, <2>1, <2>4
<1>13. CASE ReceiveAnswer(t)
  <2> USE <1>13 DEF ReceiveAnswer
  <2>1. Local("answered", method[t], exchange[t], answer[t], received[t], buffer[t], outcome[t])
    BY <1>0 DEF Local
  <2> QED
    BY <1>1, <1>5, <2>1
<1>14. ASSUME NEW o, End(t, o), o # "ok", pc[t] \in {"answered", "streaming"},
              \/ Refusal(CurrentOf(method[t], exchange[t]), answer[t]) \in {"none", o}
              \/ CurrentOf(method[t], exchange[t]).stream /\ o = "HTTPError",
              UNCHANGED <<method, exchange, answer, received, buffer>>
       PROVE  LocalInv'
  <2>1. Local("idle", method[t], exchange[t], answer[t], received[t], buffer[t], o)
    BY <1>0, <1>14 DEF Local
  <2> QED
    BY <1>1, <1>6, <1>14, <2>1
<1>15. CASE RaiseForStatus(t)
  <2> USE <1>15 DEF RaiseForStatus
  <2>1. answer[t] # NoAnswer
    BY <1>0 DEF Local
  <2>2. CASE End(t, Refusal(Current(t), answer[t]))
    BY <1>2, <1>3, <1>14, <2>1, <2>2
  <2>3. CASE Current(t).stream /\ End(t, "HTTPError")
    BY <1>2, <1>14, <2>3
  <2> QED
    BY <2>2, <2>3
<1>16. CASE UseToken(t)
  <2> USE <1>16 DEF UseToken
  <2>1. answer'[t] = NoAnswer /\ \A u \in Threads \ {t} : answer'[u] = answer[u]
    BY <1>0 DEF TypeOK
  <2>2. exchange'[t] = "api" /\ \A u \in Threads \ {t} : exchange'[u] = exchange[u]
    BY <1>0 DEF TypeOK
  <2>3. received[t] = 0 /\ ~buffer[t].rewound /\ outcome[t] = "none"
    BY <1>0 DEF Local
  <2>4. Local("leasing", method[t], "api", NoAnswer, received[t], buffer[t], outcome[t])
    BY <2>3 DEF Local
  <2> QED
    BY <1>1, <1>5, <2>1, <2>2, <2>4
<1>17. CASE ExtractModel(t)
  <2> USE <1>17 DEF ExtractModel
  <2>1. answer[t] # NoAnswer /\ ~buffer[t].rewound /\ (exchange[t] = "api" => received[t] > 0)
    BY <1>0 DEF Local
  <2>2. Refusal(CurrentOf(method[t], exchange[t]), answer[t]) = "none"
    BY <1>3, <2>1
  <2>3. CASE Concluded(t) # "ok"
    BY <1>14, <2>2, <2>3
  <2>4. CASE Concluded(t) = "ok"
    <3>1. exchange[t] = "api" /\ CurrentOf(method[t], exchange[t]) = method[t]
      BY <2>4 DEF CurrentOf
    <3>2. ~method[t].stream
      BY <1>2, <3>1
    <3>3. Local("idle", method[t], exchange[t], answer[t], received[t], buffer[t], "ok")
      BY <1>0, <2>1, <2>2, <3>1, <3>2 DEF Local
    <3> QED
      BY <1>1, <1>6, <2>4, <3>3
  <2> QED
    BY <2>3, <2>4
<1>18. CASE BeginStream(t)
  <2> USE <1>18 DEF BeginStream
  <2>1. exchange[t] = "api" /\ CurrentOf(method[t], exchange[t]) = method[t]
    BY <1>2, <1>4 DEF CurrentOf
  <2>2. Refusal(method[t], answer[t]) = "none" /\ method[t].stream
    BY <1>0, <1>2, <1>3, <2>1 DEF Local
  <2>3. Local("streaming", method[t], exchange[t], answer[t], received[t], buffer[t], outcome[t])
    BY <1>0, <2>1, <2>2 DEF Local
  <2> QED
    BY <1>1, <1>5, <2>3
<1>19. CASE WriteChunk(t)
  <2> USE <1>19 DEF WriteChunk
  <2>1. /\ buffer'[t].rewound = buffer[t].rewound
        /\ \A u \in Threads \ {t} : buffer'[u] = buffer[u]
    BY <1>0 DEF TypeOK
  <2>2. Local(pc[t], method[t], exchange[t], answer[t], received[t], buffer'[t], outcome[t])
    BY <1>0, <2>1 DEF Local
  <2> QED
    BY <1>1, <2>1, <2>2
<1>20. CASE StreamBreaks(t)
  <2> USE <1>20 DEF StreamBreaks
  <2>1. Refusal(CurrentOf(method[t], exchange[t]), answer[t]) = "none"
    BY <1>0 DEF Local, CurrentOf
  <2> QED
    BY <1>14, <2>1
<1>21. CASE EndStream(t)
  <2> USE <1>21 DEF EndStream
  <2>1. /\ buffer'[t].rewound /\ buffer'[t].chunks = SizeOf(answer[t])
        /\ \A u \in Threads \ {t} : buffer'[u] = buffer[u]
    BY <1>0, <1>2 DEF TypeOK
  <2>2. /\ exchange[t] = "api" /\ received[t] > 0 /\ answer[t] # NoAnswer
        /\ Refusal(method[t], answer[t]) = "none"
    BY <1>0 DEF Local
  <2>3. Local("idle", method[t], exchange[t], answer[t], received[t], buffer'[t], "ok")
    BY <1>0, <2>1, <2>2 DEF Local, CurrentOf
  <2> QED
    BY <1>1, <1>6, <2>1, <2>3
<1> QED
  BY <1>7, <1>8, <1>10, <1>11, <1>12, <1>13, <1>15, <1>16, <1>17, <1>18, <1>19, <1>20, <1>21
  DEF CallStep

(* A new call starts over with everything but the pool.                    *)
LEMMA BeginCallStep ==
  ASSUME IInv, NEW t \in Threads, NEW m \in Methods, BeginCall(t, m)
  PROVE  IInv'
<1> USE DEF BeginCall, Goto
<1>0. TypeOK
  BY DEF IInv
<1>1. PICK e \in {"token", "api"} : exchange' = [exchange EXCEPT ![t] = e]
  OBVIOUS
<1>2. Empty \in [chunks : 0..FileSize, rewound : BOOLEAN] /\ ~Empty.rewound
  BY BotXCallAssumption DEF Empty
<1>3. TypeOK'
  <2>1. "none" \in Outcomes
    BY DEF Outcomes
  <2>2. Retries \in 0..Retries
    BY BotXCallAssumption
  <2> QED
    BY <1>0, <1>1, <1>2, <2>1, <2>2 DEF TypeOK
<1>4. LocalInv'
  <2>1. /\ pc'[t] = "leasing" /\ method'[t] = m /\ exchange'[t] = e
        /\ answer'[t] = NoAnswer /\ received'[t] = 0 /\ buffer'[t] = Empty
        /\ outcome'[t] = "none"
    BY <1>0, <1>1 DEF TypeOK
  <2>2. Local("leasing", m, e, NoAnswer, 0, Empty, "none")
    BY <1>2 DEF Local
  <2>3. \A u \in Threads \ {t} :
           /\ pc'[u] = pc[u]             /\ method'[u] = method[u]
           /\ exchange'[u] = exchange[u] /\ answer'[u] = answer[u]
           /\ received'[u] = received[u] /\ buffer'[u] = buffer[u]
           /\ outcome'[u] = outcome[u]
    BY <1>0, <1>1 DEF TypeOK
  <2> QED
    BY <2>1, <2>2, <2>3, OneThread
<1>5. Holders'
  <2>1. \A u \in Threads : u \in leased <=> Holds(pc[u], method[u], exchange[u])
    BY DEF IInv, Holders
  <2>2. \A u \in Threads : u \in leased' <=> Holds(pc'[u], method'[u], exchange'[u])
    <3> SUFFICES ASSUME NEW u \in Threads
                 PROVE  u \in leased' <=> Holds(pc'[u], method'[u], exchange'[u])
      OBVIOUS
    <3>1. CASE u = t
      BY <1>0, <2>1, <3>1 DEF TypeOK, Holds
    <3>2. CASE u # t
      BY <1>0, <1>1, <2>1, <3>2 DEF TypeOK
    <3> QED
      BY <3>1, <3>2
  <2> QED
    BY <2>2 DEF IInv, Holders
<1> QED
  BY <1>3, <1>4, <1>5 DEF IInv

-----------------------------------------------------------------------------
(* The invariant holds initially, and every step preserves it.             *)
THEOREM Invariance == Spec => []IInv
<1>1. IInv /\ [Next]_vars => IInv'
  <2> SUFFICES ASSUME IInv, [Next]_vars PROVE IInv'
    OBVIOUS
  <2>1. ASSUME NEW t \in Threads, CallStep(t) PROVE IInv'
    BY <2>1, TypeSteps, LocalSteps, HolderSteps DEF IInv
  <2>2. CASE Next
    BY <2>1, <2>2, BeginCallStep DEF Next
  <2>3. CASE UNCHANGED vars
    BY <2>3 DEF vars, IInv, TypeOK, LocalInv, Holders
  <2> QED
    BY <2>2, <2>3
<1> QED
  BY <1>1, Initially, PTL DEF Spec

(* Type correctness.                                                       *)
THEOREM TypeCorrect == Spec => []TypeOK
<1>1. IInv => TypeOK
  BY DEF IInv
<1> QED
  BY <1>1, Invariance, PTL

(* No call, however it ends, keeps a connection of the pool, and the pool  *)
(* never lends more than it has: for any number of threads and retries.    *)
THEOREM PoolKept == Spec => []ConnectionsReturned
<1>1. IInv => ConnectionsReturned
  <2> SUFFICES ASSUME IInv PROVE ConnectionsReturned
    OBVIOUS
  <2>1. \A t \in Threads : Current(t) = CurrentOf(method[t], exchange[t])
    BY AtHand DEF IInv
  <2> QED
    BY <2>1 DEF IInv, Holders, Holds, ConnectionsReturned
<1> QED
  BY <1>1, Invariance, PTL

(* The server gets the POST of a call once at most, whatever is lost and   *)
(* however often the pool may repeat.                                      *)
THEOREM NoPostTwice == Spec => []PostedOnce
<1>1. IInv => PostedOnce
  BY DEF IInv, LocalInv, Local, PostedOnce
<1> QED
  BY <1>1, Invariance, PTL

(* A success is the server's own, and a file that is reported as fetched   *)
(* is whole.                                                               *)
THEOREM RealResults == Spec => []ResultsAreReal
<1>1. IInv => ResultsAreReal
  <2> SUFFICES ASSUME IInv, NEW t \in Threads
               PROVE  /\ outcome[t] = "ok" =>
                           /\ received[t] > 0 /\ answer[t] # NoAnswer
                           /\ Succeeded(answer[t].status)
                      /\ method[t].stream =>
                           (outcome[t] = "ok" <=>
                              buffer[t].rewound /\ buffer[t].chunks = BodySize(t))
    BY DEF ResultsAreReal
  <2>1. Local(pc[t], method[t], exchange[t], answer[t], received[t], buffer[t], outcome[t])
    BY DEF IInv, LocalInv
  <2>2. BodySize(t) = SizeOf(answer[t]) /\ method[t] \in Methods
    BY AtHand DEF IInv, TypeOK
  <2>3. outcome[t] = "ok" => Succeeded(answer[t].status)
    BY <2>1, <2>2, AtHand, Refusals DEF Local, IInv
  <2> QED
    BY <2>1, <2>2, <2>3 DEF Local
<1> QED
  BY <1>1, Invariance, PTL

(* A status a method has a handler for is never a success, not even 204.   *)
THEOREM HandledStatusRaises == Spec => []DeletedFileRaises
<1>1. IInv => DeletedFileRaises
  <2> SUFFICES ASSUME IInv, NEW t \in Threads, answer[t] # NoAnswer,
                      answer[t].status \in DOMAIN Current(t).handlers, outcome[t] = "ok"
               PROVE  FALSE
    BY DEF DeletedFileRaises
  <2>1. Local(pc[t], method[t], exchange[t], answer[t], received[t], buffer[t], outcome[t])
    BY DEF IInv, LocalInv
  <2>2. exchange[t] = "api" /\ Refusal(method[t], answer[t]) = "none"
    BY <2>1 DEF Local
  <2>3. Current(t) = method[t] /\ method[t] \in Methods /\ answer[t] \in AnswerSet
    BY <2>2, AtHand DEF IInv, TypeOK, CurrentOf
  <2> QED
    BY <2>2, <2>3, Refusals
<1> QED
  BY <1>1, Invariance, PTL

(* When every method's handlers have the inherited one for 401, each 401   *)
(* reaches the caller as InvalidBotAccountError.                           *)
THEOREM BadAccounts ==
  ASSUME \A m \in Methods \union {TokenMethod} :
           401 \in DOMAIN m.handlers /\ m.handlers[401] = Raises("InvalidBotAccountError")
  PROVE  Spec => []BadAccountReported
<1>1. IInv => BadAccountReported
  <2> SUFFICES ASSUME IInv, NEW t \in Threads, pc[t] = "idle", answer[t] # NoAnswer,
                      answer[t].status = 401
               PROVE  \/ outcome[t] = "InvalidBotAccountError"
                      \/ Current(t).stream /\ outcome[t] = "HTTPError"
    BY DEF BadAccountReported
  <2>1. Local(pc[t], method[t], exchange[t], answer[t], received[t], buffer[t], outcome[t])
    BY DEF IInv, LocalInv
  <2>2. /\ Current(t) \in Methods \union {TokenMethod}
        /\ Current(t) = CurrentOf(method[t], exchange[t])
    BY AtHand DEF IInv
  <2>3. Refusal(Current(t), answer[t]) = "InvalidBotAccountError"
    <3>1. Refusal(Current(t), answer[t]) =
            Handled(Raises("InvalidBotAccountError"), answer[t].body)
      BY <2>2 DEF Refusal
    <3> QED
      BY <3>1 DEF Handled, Raises
  <2> QED
    BY <2>1, <2>2, <2>3 DEF Local
<1> QED
  BY <1>1, Invariance, PTL

-----------------------------------------------------------------------------
(* The refinement of RemoteCall.                                           *)
Calling == {t \in Threads : pc[t] # "idle"}

Posts == [t \in Threads |-> method[t].verb = "POST"]

ResultOf(o) == IF o \in {"none", "ok"} THEN o ELSE "error"

Results == [t \in Threads |-> ResultOf(outcome[t])]

LEMMA ConclusionNamed ==
  ASSUME NEW model, NEW body PROVE Conclusion(model, body) # "none"
<1>1. SyncError(body) # "none"
  BY DEF SyncError
<1> QED
  BY <1>1 DEF Conclusion

LEMMA RemoteInit == Init => Remote!Init
<1> SUFFICES ASSUME Init PROVE Remote!Init
  OBVIOUS
<1>1. Calling = {} /\ Results = [t \in Threads |-> "none"]
  BY DEF Init, Calling, Results, ResultOf
<1>2. Posts \in [Threads -> BOOLEAN]
  BY DEF Posts
<1> QED
  BY <1>1, <1>2 DEF Init, Remote!Init, Calling, Posts, Results, ResultOf

(* A step within a call that the server and the caller do not notice.      *)
LEMMA UnnoticedStutters ==
  ASSUME IInv, NEW t \in Threads, pc[t] # "idle", NEW place, place # "idle",
         Goto(t, place), UNCHANGED <<method, received, outcome>>
  PROVE  UNCHANGED Remote!vars
<1>1. \A u \in Threads : pc'[u] # "idle" <=> pc[u] # "idle"
  BY DEF Goto, IInv, TypeOK
<1>2. Calling' = Calling
  BY <1>1 DEF Calling
<1> QED
  BY <1>2 DEF Remote!vars, Calling

LEMMA EndReturns ==
  ASSUME IInv, IInv', NEW t \in Threads, pc[t] # "idle", NEW o, o # "none", End(t, o),
         UNCHANGED <<method, received>>
  PROVE  Remote!Next
<1>1. /\ pc' = [pc EXCEPT ![t] = "idle"]
      /\ outcome' = [outcome EXCEPT ![t] = o]
  BY DEF End, Goto
<1>2. t \in Calling
  BY DEF Calling
<1>3. Calling' = Calling \ {t}
  BY <1>1 DEF Calling, IInv, TypeOK
<1>4. Results' = [Results EXCEPT ![t] = ResultOf(o)]
  BY <1>1 DEF Results, IInv, TypeOK
<1>5. ResultOf(o) = "ok" => received[t] > 0
  <2>1. outcome'[t] = o
    BY <1>1 DEF IInv, TypeOK
  <2>2. Local(pc'[t], method'[t], exchange'[t], answer'[t], received'[t], buffer'[t],
              outcome'[t])
    BY DEF IInv, LocalInv
  <2> QED
    BY <2>1, <2>2 DEF Local, ResultOf
<1>6. ResultOf(o) \in {"ok", "error"}
  BY DEF ResultOf
<1>7. Remote!Return(t, ResultOf(o))
  BY <1>2, <1>3, <1>4, <1>5 DEF Remote!Return, Calling, Posts, Results, ResultOf
<1> QED
  BY <1>6, <1>7 DEF Remote!Next

(* The server gets the API request, or, unnoticed, that for a token.       *)
LEMMA ServerAnswersRefines ==
  ASSUME IInv, NEW t \in Threads, ServerAnswers(t)
  PROVE  [Remote!Next]_(Remote!vars)
<1>1. /\ pc[t] = "sending"
      /\ Goto(t, "waiting")
      /\ received' = [received EXCEPT ![t] = IF exchange[t] = "api" THEN @ + 1 ELSE @]
      /\ UNCHANGED <<method, outcome>>
  BY DEF ServerAnswers
<1>2. CASE exchange[t] = "api"
  <2>1. Calling' = Calling /\ t \in Calling
    BY <1>1 DEF Calling, Goto, IInv, TypeOK
  <2>2. method[t].verb = "POST" => received[t] = 0
    BY <1>1 DEF IInv, LocalInv, Local
  <2>3. Remote!TakeEffect(t)
    BY <1>1, <1>2, <2>1, <2>2 DEF Remote!TakeEffect, Calling
  <2> QED
    BY <2>3 DEF Remote!Next
<1>3. CASE exchange[t] # "api"
  <2>1. received' = received
    BY <1>1, <1>3 DEF IInv, TypeOK
  <2> QED
    BY <1>1, <2>1, UnnoticedStutters
<1> QED
  BY <1>2, <1>3

LEMMA TransportErrorRefines ==
  ASSUME IInv, IInv', NEW t \in Threads, pc[t] # "idle", NEW repeatable \in BOOLEAN,
         TransportError(t, repeatable), UNCHANGED <<method, received>>
  PROVE  [Remote!Next]_(Remote!vars)
<1>1. CASE Again(t)
  BY <1>1, UnnoticedStutters DEF Again
<1>2. CASE End(t, "BotXNetworkError")
  BY <1>2, EndReturns
<1> QED
  BY <1>1, <1>2 DEF TransportError

LEMMA BeginCallRefines ==
  ASSUME IInv, NEW t \in Threads, NEW m \in Methods, BeginCall(t, m)
  PROVE  Remote!Call(t)
<1>1. /\ pc[t] = "idle"
      /\ pc' = [pc EXCEPT ![t] = "leasing"]
      /\ method' = [method EXCEPT ![t] = m]
      /\ received' = [received EXCEPT ![t] = 0]
      /\ outcome' = [outcome EXCEPT ![t] = "none"]
  BY DEF BeginCall, Goto
<1>2. t \notin Calling /\ Calling' = Calling \union {t}
  BY <1>1 DEF Calling, IInv, TypeOK
<1>3. Posts' = [Posts EXCEPT ![t] = m.verb = "POST"]
  BY <1>1 DEF Posts, IInv, TypeOK
<1>4. Results' = [Results EXCEPT ![t] = "none"]
  BY <1>1 DEF Results, ResultOf, IInv, TypeOK
<1> QED
  BY <1>1, <1>2, <1>3, <1>4 DEF Remote!Call, Calling, Posts, Results, ResultOf

LEMMA CallStepRefines ==
  ASSUME IInv, IInv', NEW t \in Threads, CallStep(t)
  PROVE  [Remote!Next]_(Remote!vars)
<1>1. CASE Lease(t)
  BY <1>1, UnnoticedStutters DEF Lease
<1>2. CASE ServerAnswers(t)
  BY <1>2, ServerAnswersRefines
<1>3. CASE ConnectFails(t)
  BY <1>3, TransportErrorRefines DEF ConnectFails
<1>4. CASE AnswerLost(t)
  BY <1>4, TransportErrorRefines DEF AnswerLost, Idempotent
<1>5. CASE ServerAsksToWait(t)
  BY <1>5, UnnoticedStutters DEF ServerAsksToWait, Again
<1>6. CASE ReceiveAnswer(t)
  BY <1>6, UnnoticedStutters DEF ReceiveAnswer
<1>7. CASE RaiseForStatus(t)
  BY <1>7, EndReturns DEF RaiseForStatus, Refused
<1>8. CASE UseToken(t)
  BY <1>8, UnnoticedStutters DEF UseToken
<1>9. CASE ExtractModel(t)
  BY <1>9, EndReturns, ConclusionNamed DEF ExtractModel, Concluded
<1>10. CASE BeginStream(t)
  BY <1>10, UnnoticedStutters DEF BeginStream
<1>11. CASE WriteChunk(t)
  BY <1>11 DEF WriteChunk, Remote!vars
<1>12. CASE StreamBreaks(t)
  BY <1>12, EndReturns DEF StreamBreaks
<1>13. CASE EndStream(t)
  BY <1>13, EndReturns DEF EndStream
<1> QED
  BY <1>1, <1>2, <1>3, <1>4, <1>5, <1>6, <1>7, <1>8, <1>9, <1>10, <1>11, <1>12, <1>13
  DEF CallStep

LEMMA StepRefinesRemote ==
  IInv /\ IInv' /\ [Next]_vars => [Remote!Next]_(Remote!vars)
<1> SUFFICES ASSUME IInv, IInv', [Next]_vars PROVE [Remote!Next]_(Remote!vars)
  OBVIOUS
<1>1. ASSUME NEW t \in Threads, NEW m \in Methods, BeginCall(t, m) PROVE Remote!Next
  BY <1>1, BeginCallRefines DEF Remote!Next
<1>2. ASSUME NEW t \in Threads, CallStep(t) PROVE [Remote!Next]_(Remote!vars)
  BY <1>2, CallStepRefines
<1>3. CASE UNCHANGED vars
  BY <1>3 DEF vars, Remote!vars
<1> QED
  BY <1>1, <1>2, <1>3 DEF Next

(* Whatever the pool, the token exchange, the retries and the streams do,  *)
(* for any methods and answers: a call is one remote call.                 *)
THEOREM Refinement == Spec => ImplementsRemoteCall
  BY RemoteInit, StepRefinesRemote, Invariance, PTL
  DEF Spec, ImplementsRemoteCall, Remote!Spec
=============================================================================
