------------------------------ MODULE BotXCall ------------------------------
(***************************************************************************)
(* One API call from execute to its result or exception, made by worker    *)
(* threads that share one urllib3 pool.                                    *)
(*   pybotx/client/botx_method.py            the exchange with the server  *)
(*   pybotx/client/authorized_botx_method.py the token exchange before it  *)
(*   pybotx/client/files_api/download_file.py, users_api/users_as_csv.py   *)
(* The pool is the application's (external): it may block when its         *)
(* connections are all taken, and it may retry.  Token caching is the      *)
(* subject of TokenCache: here a call may or may not need a token first.   *)
(***************************************************************************)
EXTENDS Answers, FiniteSets

CONSTANTS
  Threads,      \* WSGI worker threads
  Methods,      \* the API methods they call
  TokenMethod,  \* GetTokenMethod
  AnswerSet,    \* the answers the server may give
  NoAnswer,
  PoolSize,     \* connections of the pool
  Retries,      \* retries the pool makes on its own: 3 by default, 0 if off
  FileSize      \* chunks in a streamed body

ASSUME BotXCallAssumption ==
  /\ NoAnswer \notin AnswerSet
  /\ IsFiniteSet(Threads)
  /\ PoolSize \in Nat
  /\ Retries \in Nat
  /\ FileSize \in Nat
  /\ ~TokenMethod.stream
  /\ AnswerSet \subseteq [status : Nat, body : Bodies]
  /\ \A m \in Methods \union {TokenMethod} :  \* handlers raise, whatever the body
       \A s \in DOMAIN m.handlers, b \in Bodies :
         Handled(m.handlers[s], b) \notin {"none", "ok"}

VARIABLES
  pc,        \* pc[t]: where thread t is in its call
  method,    \* method[t]: the method it executes
  exchange,  \* exchange[t]: "token" while it fetches a token, then "api"
  retries,   \* retries[t]: what the pool has left for this exchange
  answer,    \* answer[t]: the server's answer to this exchange
  leased,    \* the threads that hold a connection of the pool
  received,  \* received[t]: how often the server got the API request
  buffer,    \* buffer[t]: chunks in the caller's buffer, and is it rewound?
  outcome    \* outcome[t]: "ok", the exception raised, or "none" in a call

vars == <<pc, method, exchange, retries, answer, leased, received, buffer, outcome>>

Empty == [chunks |-> 0, rewound |-> FALSE]

Init ==
  /\ pc = [t \in Threads |-> "idle"]
  /\ method \in [Threads -> Methods]
  /\ exchange = [t \in Threads |-> "api"]
  /\ retries = [t \in Threads |-> Retries]
  /\ answer = [t \in Threads |-> NoAnswer]
  /\ leased = {}
  /\ received = [t \in Threads |-> 0]
  /\ buffer = [t \in Threads |-> Empty]
  /\ outcome = [t \in Threads |-> "none"]

-----------------------------------------------------------------------------
Current(t) == IF exchange[t] = "token" THEN TokenMethod ELSE method[t]

(* urllib3 repeats a request it knows was not delivered whatever the verb, *)
(* and one that may have been delivered unless it is a POST (external).    *)
Idempotent(t) == Current(t).verb # "POST"

Goto(t, place) == pc' = [pc EXCEPT ![t] = place]

Release(t) == leased' = leased \ {t}

(* The exception or the result reaches the caller.                         *)
End(t, result) ==
  /\ Goto(t, "idle")
  /\ outcome' = [outcome EXCEPT ![t] = result]

(* execute is called; _add_authorization_headers may have to fetch a token *)
(* with an exchange of its own before the request.                         *)
BeginCall(t, m) ==
  /\ pc[t] = "idle"
  /\ Goto(t, "leasing")
  /\ method' = [method EXCEPT ![t] = m]
  /\ \E e \in {"token", "api"} : exchange' = [exchange EXCEPT ![t] = e]
  /\ retries' = [retries EXCEPT ![t] = Retries]
  /\ answer' = [answer EXCEPT ![t] = NoAnswer]
  /\ received' = [received EXCEPT ![t] = 0]
  /\ buffer' = [buffer EXCEPT ![t] = Empty]
  /\ outcome' = [outcome EXCEPT ![t] = "none"]
  /\ UNCHANGED leased

(* The pool lends a connection, and the request is sent on it.             *)
Lease(t) ==
  /\ pc[t] = "leasing"
  /\ Cardinality(leased) < PoolSize
  /\ leased' = leased \union {t}
  /\ Goto(t, "sending")
  /\ UNCHANGED <<method, exchange, retries, answer, received, buffer, outcome>>

ServerAnswers(t) ==
  /\ pc[t] = "sending"
  /\ \E a \in AnswerSet : answer' = [answer EXCEPT ![t] = a]
  /\ received' = [received EXCEPT ![t] = IF exchange[t] = "api" THEN @ + 1 ELSE @]
  /\ Goto(t, "waiting")
  /\ UNCHANGED <<method, exchange, retries, leased, buffer, outcome>>

(* The pool gives the connection back and starts over.                     *)
Again(t) ==
  /\ retries[t] > 0
  /\ retries' = [retries EXCEPT ![t] = @ - 1]
  /\ Goto(t, "leasing")
  /\ UNCHANGED outcome

(* A transport error: the pool starts over, or gives up and the error      *)
(* becomes BotXNetworkError.                                               *)
TransportError(t, repeatable) ==
  /\ Release(t)
  /\ \/ repeatable /\ Again(t)
     \/ /\ ~repeatable \/ retries[t] = 0
        /\ End(t, "BotXNetworkError")
        /\ UNCHANGED retries

ConnectFails(t) ==
  /\ pc[t] = "sending"
  /\ TransportError(t, TRUE)
  /\ UNCHANGED <<method, exchange, answer, received, buffer>>

(* Deliberate error: the pool repeats any request.                         *)
AnswerLostRepeated(t) ==
  /\ pc[t] \in {"sending", "waiting"}
  /\ TransportError(t, TRUE)
  /\ answer' = [answer EXCEPT ![t] = NoAnswer]
  /\ UNCHANGED <<method, exchange, received, buffer>>

(* The connection breaks or times out after the request left, before or    *)
(* after the server got it.  That the server gets it later is taken as     *)
(* that it had it before: `received` counts requests, not when they came.  *)
AnswerLost(t) ==
  /\ pc[t] \in {"sending", "waiting"}
  /\ TransportError(t, Idempotent(t))
  /\ answer' = [answer EXCEPT ![t] = NoAnswer]
  /\ UNCHANGED <<method, exchange, received, buffer>>

(* 413, 429 and 503 may carry Retry-After, which the pool obeys (external).*)
ServerAsksToWait(t) ==
  /\ pc[t] = "waiting"
  /\ answer[t].status \in {413, 429, 503}
  /\ Idempotent(t)
  /\ Again(t)
  /\ Release(t)
  /\ answer' = [answer EXCEPT ![t] = NoAnswer]
  /\ UNCHANGED <<method, exchange, received, buffer>>

(* request returns: with the whole body, and the connection is back in the *)
(* pool, or, for a stream, with the body still on the connection.          *)
ReceiveAnswer(t) ==
  /\ pc[t] = "waiting"
  /\ Goto(t, "answered")
  /\ IF Current(t).stream THEN UNCHANGED leased ELSE Release(t)
  /\ UNCHANGED <<method, exchange, retries, answer, received, buffer, outcome>>

Refused(t) == Refusal(Current(t), answer[t]) # "none"

(* _raise_for_status raises.  The exception quotes the body, which on a    *)
(* stream has yet to be read and may fail to arrive; the stream's finally  *)
(* releases the connection either way.                                     *)
RaiseForStatus(t) ==
  /\ pc[t] = "answered"
  /\ Refused(t)
  /\ \/ End(t, Refusal(Current(t), answer[t]))
     \/ Current(t).stream /\ End(t, "HTTPError")
  /\ Release(t)
  /\ UNCHANGED <<method, exchange, retries, answer, received, buffer>>

Concluded(t) == Conclusion(Current(t).model, answer[t].body)

(* Deliberate error: fetching a token needs a token in turn.               *)
UseTokenForToken(t) ==
  /\ pc[t] = "answered"
  /\ exchange[t] = "token"
  /\ ~Refused(t)
  /\ Concluded(t) = "ok"
  /\ retries' = [retries EXCEPT ![t] = Retries]
  /\ answer' = [answer EXCEPT ![t] = NoAnswer]
  /\ Goto(t, "leasing")
  /\ UNCHANGED <<method, exchange, leased, received, buffer, outcome>>

(* get_token returns: now the request itself.                              *)
UseToken(t) ==
  /\ pc[t] = "answered"
  /\ exchange[t] = "token"
  /\ ~Refused(t)
  /\ Concluded(t) = "ok"
  /\ exchange' = [exchange EXCEPT ![t] = "api"]
  /\ retries' = [retries EXCEPT ![t] = Retries]
  /\ answer' = [answer EXCEPT ![t] = NoAnswer]
  /\ Goto(t, "leasing")
  /\ UNCHANGED <<method, leased, received, buffer, outcome>>

(* The model is extracted from the body, or that fails.                    *)
ExtractModel(t) ==
  /\ pc[t] = "answered"
  /\ ~Current(t).stream
  /\ ~Refused(t)
  /\ exchange[t] = "api" \/ Concluded(t) # "ok"
  /\ End(t, Concluded(t))
  /\ UNCHANGED <<method, exchange, retries, answer, leased, received, buffer>>

-----------------------------------------------------------------------------
(* The loop of execute over response.stream().  A 204 has no body.         *)
BodySize(t) == IF answer[t].status = 204 THEN 0 ELSE FileSize

BeginStream(t) ==
  /\ pc[t] = "answered"
  /\ Current(t).stream
  /\ ~Refused(t)
  /\ Goto(t, "streaming")
  /\ UNCHANGED <<method, exchange, retries, answer, leased, received, buffer, outcome>>

(* Deliberate error: the last chunk is written twice.                      *)
WriteChunkTwice(t) ==
  /\ pc[t] = "streaming"
  /\ buffer[t].chunks <= BodySize(t)
  /\ buffer' = [buffer EXCEPT ![t].chunks = @ + 1]
  /\ UNCHANGED <<pc, method, exchange, retries, answer, leased, received, outcome>>

WriteChunk(t) ==
  /\ pc[t] = "streaming"
  /\ buffer[t].chunks < BodySize(t)
  /\ buffer' = [buffer EXCEPT ![t].chunks = @ + 1]
  /\ UNCHANGED <<pc, method, exchange, retries, answer, leased, received, outcome>>

(* Deliberate error: no finally around the stream.                         *)
StreamBreaksUnreleased(t) ==
  /\ pc[t] = "streaming"
  /\ buffer[t].chunks < BodySize(t)
  /\ \E exception \in {"HTTPError", "OSError"} : End(t, exception)
  /\ UNCHANGED <<method, exchange, retries, answer, leased, received, buffer>>

(* The connection breaks under the stream, or writing to the caller's      *)
(* buffer fails.  Neither is inside the try that makes BotXNetworkError.   *)
StreamBreaks(t) ==
  /\ pc[t] = "streaming"
  /\ buffer[t].chunks < BodySize(t)
  /\ \E exception \in {"HTTPError", "OSError"} : End(t, exception)
  /\ Release(t)
  /\ UNCHANGED <<method, exchange, retries, answer, received, buffer>>

EndStream(t) ==
  /\ pc[t] = "streaming"
  /\ buffer[t].chunks = BodySize(t)
  /\ buffer' = [buffer EXCEPT ![t].rewound = TRUE]
  /\ Release(t)
  /\ End(t, "ok")
  /\ UNCHANGED <<method, exchange, retries, answer, received>>

CallStep(t) ==
  \/ Lease(t)
  \/ ServerAnswers(t)
  \/ ConnectFails(t)
  \/ AnswerLost(t)
  \/ ServerAsksToWait(t)
  \/ ReceiveAnswer(t)
  \/ RaiseForStatus(t)
  \/ UseToken(t)
  \/ ExtractModel(t)
  \/ BeginStream(t)
  \/ WriteChunk(t)
  \/ StreamBreaks(t)
  \/ EndStream(t)

Next ==
  \/ \E t \in Threads, m \in Methods : BeginCall(t, m)
  \/ \E t \in Threads : CallStep(t)

Spec == Init /\ [][Next]_vars

(* A thread inside a call is scheduled, and the pool's timeouts bound the  *)
(* wait for a connection, for the answer and for every chunk.              *)
FairSpec == Spec /\ \A t \in Threads : WF_vars(CallStep(t))
-----------------------------------------------------------------------------
Outcomes ==
  {"none", "ok", "BotXNetworkError"} \union Foreign
    \union {Refusal(m, a) : m \in Methods \union {TokenMethod}, a \in AnswerSet}
    \union {Conclusion(m.model, a.body) :
              m \in Methods \union {TokenMethod}, a \in AnswerSet}

TypeOK ==
  /\ pc \in [Threads -> {"idle", "leasing", "sending", "waiting", "answered",
                         "streaming"}]
  /\ method \in [Threads -> Methods]
  /\ exchange \in [Threads -> {"token", "api"}]
  /\ retries \in [Threads -> 0..Retries]
  /\ answer \in [Threads -> AnswerSet \union {NoAnswer}]
  /\ leased \in SUBSET Threads
  /\ received \in [Threads -> Nat]
  /\ buffer \in [Threads -> [chunks : 0..FileSize, rewound : BOOLEAN]]
  /\ outcome \in [Threads -> Outcomes]

(* The pool gets every connection back: a thread holds one exactly while   *)
(* its request is out or its stream is read, so none is lost when a call   *)
(* fails, and no thread waits for a connection while it holds another.     *)
ConnectionsReturned ==
  /\ Cardinality(leased) <= PoolSize
  /\ \A t \in Threads :
       t \in leased <=>
         \/ pc[t] \in {"sending", "waiting"}
         \/ pc[t] \in {"answered", "streaming"} /\ Current(t).stream

(* Whatever is lost and repeated on the way, the server receives a POST of *)
(* one call at most once; and no API request when no token could be had.   *)
PostedOnce ==
  \A t \in Threads :
    /\ method[t].verb = "POST" => received[t] <= 1
    /\ exchange[t] = "token" => received[t] = 0

(* A result is only ever made from a 2xx answer of a request the server    *)
(* received; for a stream, the caller's buffer then holds the whole body   *)
(* and is rewound, and only then.                                          *)
ResultsAreReal ==
  \A t \in Threads :
    /\ outcome[t] = "ok" =>
         received[t] > 0 /\ answer[t] # NoAnswer /\ Succeeded(answer[t].status)
    /\ method[t].stream =>
         (outcome[t] = "ok" <=>
            buffer[t].rewound /\ buffer[t].chunks = BodySize(t))

(* download_file answers 204 with FileDeletedError, never with an empty    *)
(* buffer and no error.                                                    *)
DeletedFileRaises ==
  \A t \in Threads :
    /\ pc[t] = "idle"
    /\ answer[t] # NoAnswer
    /\ answer[t].status \in DOMAIN Current(t).handlers
    => outcome[t] # "ok"

(* A 401, on whichever exchange, reaches the caller as                     *)
(* InvalidBotAccountError (unless the body of a streamed one is lost).     *)
BadAccountReported ==
  \A t \in Threads :
    pc[t] = "idle" /\ answer[t] # NoAnswer /\ answer[t].status = 401 =>
      \/ outcome[t] = "InvalidBotAccountError"
      \/ Current(t).stream /\ outcome[t] = "HTTPError"

(* Every call returns or raises, when the pool has a connection for every  *)
(* thread.                                                                 *)
CallsEnd == \A t \in Threads : pc[t] # "idle" ~> pc[t] = "idle"

(* A pool with fewer connections than threads, which makes them wait,      *)
(* never stalls: some thread is outside a call again and again.            *)
PoolNeverStalls == []<>(\E t \in Threads : pc[t] = "idle")

(* "All the client's errors inherit from BaseClientError."                 *)
OnlyClientErrors == \A t \in Threads : outcome[t] \notin Foreign

(* A call with its token exchange, retries and streams is one remote call: *)
(* the caller may take a success for an effect and a POST for at most one, *)
(* and must not take an exception for none.                                *)
Remote == INSTANCE RemoteCall WITH
  calling <- {t \in Threads : pc[t] # "idle"},
  posts <- [t \in Threads |-> method[t].verb = "POST"],
  effects <- received,
  result <- [t \in Threads |-> IF outcome[t] \in {"none", "ok"} THEN outcome[t]
                               ELSE "error"]

ImplementsRemoteCall == Remote!Spec
=============================================================================
