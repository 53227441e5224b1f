------------------------------- MODULE Webhook -------------------------------
(***************************************************************************)
(* The incoming side: Falcon resources that worker threads of the WSGI     *)
(* server run, one request at a time each.                                 *)
(*   pybotx/bot/app_factory.py, bot/resources/*.py, bot/command.py,        *)
(*   bot/callback.py                                                       *)
(* The requests share the accounts and nothing else.  A use case           *)
(* (external) returns or raises.  Falcon (external) answers 4xx for a body *)
(* it cannot parse and 500 for an exception no resource converts.          *)
(***************************************************************************)
EXTENDS Verification

CONSTANTS
  Threads,        \* WSGI worker threads
  Requests,       \* Requests[t]: the requests that may come to thread t
  FirstAccount,   \* the first account of the storage
  VerifyRequests, \* verify_requests
  NoRequest

(* What the code tells apart of a request body (of /status: the query).    *)
(* shape: Falcon cannot parse it; json but the debug log line fails on it; *)
(* it does not validate; its conversion raises; or it is fine.  bot is the *)
(* bot_id it names.  target is what it asks for: a registered command or   *)
(* event, one that is not, or a message of blanks only.                    *)
Bodies ==
  [shape : {"unparsable", "unloggable", "invalid", "valid"},
   bot : BotIds,
   target : {"registered", "unregistered", "blank"}]

Endpoints == {"/command", "/notification/callback", "/status"}

Request ==
  [endpoint : Endpoints, authorization : {Garbled} \union Jwts, body : Bodies]

ASSUME WebhookAssumption ==
  /\ FirstAccount \in Accounts
  /\ VerifyRequests \in BOOLEAN
  /\ \A t \in Threads : Requests[t] \subseteq Request
  /\ NoRequest \notin Request

VARIABLES
  pc,        \* pc[t]: where thread t is in its request
  request,   \* request[t]: the request it serves
  account,   \* account[t]: the account _verify_request returned, or "none"
  runs,      \* runs[t]: use case runs of this request
  response   \* response[t]: the HTTP status sent, 0 while there is none

vars == <<pc, request, account, runs, response>>

Init ==
  /\ pc = [t \in Threads |-> "free"]
  /\ request = [t \in Threads |-> NoRequest]
  /\ account = [t \in Threads |-> "none"]
  /\ runs = [t \in Threads |-> 0]
  /\ response = [t \in Threads |-> 0]

-----------------------------------------------------------------------------
Goto(t, place) == pc' = [pc EXCEPT ![t] = place]

Respond(t, status) ==
  /\ Goto(t, "answered")
  /\ response' = [response EXCEPT ![t] = status]

Body(t) == request[t].body

At(t, endpoint) == request[t].endpoint = endpoint

(* A request reaches the server, and waits for the thread to get to it.    *)
Receive(t, r) ==
  /\ pc[t] = "free"
  /\ Goto(t, "received")
  /\ request' = [request EXCEPT ![t] = r]
  /\ UNCHANGED <<account, runs, response>>

(* Its token expires meanwhile (external).                                 *)
TokenExpires(t) ==
  /\ pc[t] = "received"
  /\ request[t].authorization # Garbled
  /\ request[t].authorization.fresh
  /\ request' = [request EXCEPT ![t].authorization.fresh = FALSE]
  /\ UNCHANGED <<pc, account, runs, response>>

(* req.media, and the debug line that trims the first attachment's content *)
(* of a command before anything checked that there is one.                 *)
ReadMedia(t) ==
  /\ pc[t] = "received"
  /\ \/ /\ ~At(t, "/status")
        /\ Body(t).shape = "unparsable"
        /\ Respond(t, 400)
     \/ /\ At(t, "/command")
        /\ Body(t).shape = "unloggable"
        /\ Respond(t, 500)
     \/ /\ At(t, "/status") \/ Body(t).shape # "unparsable"
        /\ ~(At(t, "/command") /\ Body(t).shape = "unloggable")
        /\ Goto(t, "verifying")
        /\ UNCHANGED response
  /\ UNCHANGED <<request, account, runs>>

Verdict(t) ==
  IF VerifyRequests THEN VerifyToken(request[t].authorization, {})
                    ELSE FirstAccount

(* _verify_request.  on_post and on_get turn UnverifiedRequestError alone  *)
(* into a 401.                                                             *)
VerifyRequest(t) ==
  /\ pc[t] = "verifying"
  /\ \/ /\ Verdict(t) \in Accounts
        /\ account' = [account EXCEPT ![t] = Verdict(t)]
        /\ Goto(t, "parsing")
        /\ UNCHANGED response
     \/ /\ Verdict(t) \notin Accounts
        /\ Respond(t, IF Verdict(t) = "UnverifiedRequestError" THEN 401 ELSE 500)
        /\ UNCHANGED account
  /\ UNCHANGED <<request, runs>>

(* The body is validated and converted; that it names the verified bot is  *)
(* checked last, and not for a callback, which names none.                 *)
Parse(t) ==
  /\ pc[t] = "parsing"
  /\ \/ /\ Body(t).shape # "valid"
        /\ Respond(t, 500)
     \/ /\ Body(t).shape = "valid"
        /\ ~At(t, "/notification/callback")
        /\ Body(t).bot # account[t]
        /\ Respond(t, 401)
     \/ /\ Body(t).shape = "valid"
        /\ At(t, "/notification/callback") \/ Body(t).bot = account[t]
        /\ IF At(t, "/status") THEN Respond(t, 200)
                               ELSE Goto(t, "dispatching") /\ UNCHANGED response
  /\ UNCHANGED <<request, account, runs>>

Handled(t) == At(t, "/notification/callback") \/ Body(t).target = "registered"

Run(t) ==
  /\ Goto(t, "running")
  /\ runs' = [runs EXCEPT ![t] = @ + 1]
  /\ UNCHANGED response

(* _dispatch and the call of the handler.  A body of blanks has no first   *)
(* word: IndexError.  Nobody is told of a command nobody handles.          *)
Dispatch(t) ==
  /\ pc[t] = "dispatching"
  /\ \/ Handled(t) /\ Run(t)
     \/ ~Handled(t) /\ Body(t).target = "unregistered" /\ Respond(t, 200)
        /\ UNCHANGED runs
     \/ ~Handled(t) /\ Body(t).target = "blank" /\ Respond(t, 500)
        /\ UNCHANGED runs
  /\ UNCHANGED <<request, account>>

(* Deliberate errors: a failed use case is run again; it is inside the try *)
(* that makes 401s; its request is put back in the queue.                  *)
UseCaseEndsRetried(t) ==
  /\ pc[t] = "running"
  /\ \/ Respond(t, 200) /\ UNCHANGED runs
     \/ runs[t] < 2 /\ Run(t)
  /\ UNCHANGED <<request, account>>

UseCaseEndsInTry(t) ==
  /\ pc[t] = "running"
  /\ \E status \in {200, 401, 500} : Respond(t, status)
  /\ UNCHANGED <<request, account, runs>>

UseCaseEndsRequeued(t) ==
  /\ pc[t] = "running"
  /\ \/ Respond(t, 200) /\ UNCHANGED runs
     \/ Goto(t, "received") /\ runs' = [runs EXCEPT ![t] = 0] /\ UNCHANGED response
  /\ UNCHANGED <<request, account>>

(* execute returns, or raises what the resource does not catch.  What the  *)
(* use case did stays done.                                                *)
UseCaseEnds(t) ==
  /\ pc[t] = "running"
  /\ \E status \in {200, 500} : Respond(t, status)
  /\ UNCHANGED <<request, account, runs>>

(* The answer is sent and the thread takes the next request.               *)
Send(t) ==
  /\ pc[t] = "answered"
  /\ Goto(t, "free")
  /\ request' = [request EXCEPT ![t] = NoRequest]
  /\ account' = [account EXCEPT ![t] = "none"]
  /\ runs' = [runs EXCEPT ![t] = 0]
  /\ response' = [response EXCEPT ![t] = 0]

RequestStep(t) ==
  \/ ReadMedia(t)
  \/ VerifyRequest(t)
  \/ Parse(t)
  \/ Dispatch(t)
  \/ UseCaseEnds(t)
  \/ Send(t)

Next ==
  \/ \E t \in Threads : \E r \in Requests[t] : Receive(t, r)
  \/ \E t \in Threads : TokenExpires(t)
  \/ \E t \in Threads : RequestStep(t)

Spec == Init /\ [][Next]_vars

(* A thread that serves a request is scheduled, and its use case ends.     *)
FairSpec == Spec /\ \A t \in Threads : WF_vars(RequestStep(t))
-----------------------------------------------------------------------------
TypeOK ==
  /\ pc \in [Threads -> {"free", "received", "verifying", "parsing",
                         "dispatching", "running", "answered"}]
  /\ request \in [Threads -> Request \union {NoRequest}]
  /\ account \in [Threads -> Accounts \union {"none"}]
  /\ runs \in [Threads -> 0..1]
  /\ response \in [Threads -> {0, 200, 400, 401, 500}]
  /\ \A t \in Threads : request[t] = NoRequest <=> pc[t] = "free"

(* May t's request be handled for bot b?  It may if the token is b's, and  *)
(* the body names b too; a callback's body names no bot.                   *)
Entitled(t, b) ==
  /\ request[t].authorization # Garbled
  /\ Authentic(request[t].authorization, b)
  /\ At(t, "/notification/callback") \/ Body(t).bot = b

(* A use case runs only for a request of an account of the storage that    *)
(* this account's own secret signed; the token was still good after any    *)
(* time the request waited for a thread.                                   *)
RunsAreEntitled ==
  \A t \in Threads :
    VerifyRequests /\ runs[t] > 0 => account[t] \in Accounts /\ Entitled(t, account[t])

(* Answers tell the truth: what is refused (400, 401) did nothing, and     *)
(* what is accepted (200) ran its handler, if it has one, exactly once.    *)
AnswersTellTheTruth ==
  \A t \in Threads :
    /\ response[t] \in {400, 401} => runs[t] = 0
    /\ response[t] = 200 =>
         runs[t] = IF ~At(t, "/status") /\ Handled(t) THEN 1 ELSE 0
    /\ runs[t] <= 1

(* A proper request is served: of either token version, it is never turned *)
(* away, nor does it fail before its use case has run.                     *)
ProperRequestServed ==
  \A t \in Threads :
    /\ response[t] \in {400, 401, 500}
    /\ runs[t] = 0
    /\ Body(t).shape = "valid"
    /\ Body(t).target # "blank"
    /\ VerifyRequests
    => ~ \E b \in Accounts : Entitled(t, b)

(* Every request is answered.                                              *)
RequestsAnswered == \A t \in Threads : pc[t] # "free" ~> pc[t] = "free"

(* "raises UnverifiedRequestError: If verification fails", hence a 401.    *)
UnverifiedIs401 ==
  \A t \in Threads :
    /\ pc[t] = "answered"
    /\ account[t] = "none"
    /\ Body(t).shape = "valid"
    => response[t] = 401
=============================================================================
