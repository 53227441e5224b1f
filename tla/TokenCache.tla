----------------------------- MODULE TokenCache -----------------------------
(***************************************************************************)
(* Authorisation of outgoing requests: worker threads that share a Client  *)
(* for each bot, hence its BotAccountsStorage, call authorised BotX        *)
(* methods.                                                                *)
(*   pybotx/bot/bot_accounts_storage.py      accounts and token cache      *)
(*   pybotx/client/authorized_botx_method.py the header of each request    *)
(*   pybotx/client/get_token.py              fetching a V1 token           *)
(* The bots' BotX servers are external: they issue tokens, some revoke     *)
(* them, and some drop the older tokens of a bot when they issue a new one.*)
(***************************************************************************)
EXTENDS Naturals

CONSTANTS
  Threads,      \* WSGI worker threads
  BotIds,       \* bot ids a caller may pass
  Accounts,     \* the ids the storages have accounts for
  AuthVersion,  \* AuthVersion[b]: BotXAuthVersion of b's storage
  Rotates,      \* the bots whose server, issuing a token, retires older ones
  Revokes,      \* the bots whose server may revoke tokens on its own
  MaxIssued,    \* bound: tokens issued per bot
  NoToken       \* what get_token_or_none returns on a miss

(* A credential is the V1 token number n of a bot, or (n = 0) the V2 JWT   *)
(* signed with the bot's own secret.                                       *)
Credential == [bot : Accounts, n : 0..MaxIssued]

ASSUME TokenCacheAssumption ==
  /\ Accounts \subseteq BotIds
  /\ AuthVersion \in [Accounts -> {"V1", "V2"}]
  /\ Rotates \subseteq Accounts
  /\ Revokes \subseteq Accounts
  /\ MaxIssued \in Nat
  /\ NoToken \notin Credential

VARIABLES
  pc,      \* pc[t]: where thread t is in its current call
  bot,     \* bot[t]: the bot_id argument of the call
  held,    \* held[t]: the token on its way to, or in, `token` of thread t
  result,  \* result[t]: how the last call of t ended, "none" during a call
  cache,   \* _auth_tokens
  issued,  \* server: number of tokens issued to each bot
  alive,   \* server: the tokens of each bot it still honours
  writes   \* history: writes[b][t] counts the set_token calls of t for b

calls == <<pc, bot, held, result>>
server == <<issued, alive>>
vars == <<pc, bot, held, result, cache, issued, alive, writes>>

(* "error" stands for every failure but the two named ones: network, other *)
(* status, unreadable answer.  Module BotXCall tells them apart.           *)
Results == {"none", "ok", "UnknownBotAccountError", "InvalidBotAccountError",
            "error"}

Init ==
  /\ pc = [t \in Threads |-> "idle"]
  /\ bot \in [Threads -> Accounts]
  /\ held = [t \in Threads |-> NoToken]
  /\ result = [t \in Threads |-> "none"]
  /\ cache = [b \in Accounts |-> NoToken]
  /\ issued = [b \in Accounts |-> 0]
  /\ alive = [b \in Accounts |-> {}]
  /\ writes = [b \in Accounts |-> [t \in Threads |-> 0]]

-----------------------------------------------------------------------------
Goto(t, place) == pc' = [pc EXCEPT ![t] = place]

Hold(t, credential) == held' = [held EXCEPT ![t] = credential]

(* The call is over: it returned, or the exception reached the caller.     *)
Finish(t, outcome) ==
  /\ Goto(t, "idle")
  /\ Hold(t, NoToken)
  /\ result' = [result EXCEPT ![t] = outcome]
  /\ UNCHANGED bot

(* Deliberate error: the request is made for whatever bot_id is passed.    *)
BeginCallUnchecked(t, b) ==
  /\ pc[t] = "idle"
  /\ Goto(t, "authorizing")
  /\ bot' = [bot EXCEPT ![t] = b]
  /\ result' = [result EXCEPT ![t] = "none"]
  /\ UNCHANGED <<held, cache, server, writes>>

(* execute builds the URL before anything is sent, which looks the account *)
(* up: an unknown bot_id ends the call there.                              *)
BeginCall(t, b) ==
  /\ pc[t] = "idle"
  /\ \/ /\ b \in Accounts
        /\ Goto(t, "authorizing")
        /\ bot' = [bot EXCEPT ![t] = b]
        /\ result' = [result EXCEPT ![t] = "none"]
        /\ UNCHANGED held
     \/ /\ b \notin Accounts
        /\ Finish(t, "UnknownBotAccountError")
  /\ UNCHANGED <<cache, server, writes>>

(* Deliberate error: a V1 token is assumed to exist under V2.              *)
BuildJwtAsToken(t) ==
  /\ pc[t] = "authorizing"
  /\ AuthVersion[bot[t]] = "V2"
  /\ Hold(t, [bot |-> bot[t], n |-> 1])
  /\ Goto(t, "ready")
  /\ UNCHANGED <<bot, result, cache, server, writes>>

(* V2: a JWT is built for every request and the cache is not consulted.    *)
BuildJwt(t) ==
  /\ pc[t] = "authorizing"
  /\ AuthVersion[bot[t]] = "V2"
  /\ Hold(t, [bot |-> bot[t], n |-> 0])
  /\ Goto(t, "ready")
  /\ UNCHANGED <<bot, result, cache, server, writes>>

(* V1: get_token_or_none, then the branch on its result.                   *)
ReadCache(t) ==
  /\ pc[t] = "authorizing"
  /\ AuthVersion[bot[t]] = "V1"
  /\ \/ /\ cache[bot[t]] = NoToken
        /\ Goto(t, "fetching")
        /\ UNCHANGED held
     \/ /\ cache[bot[t]] # NoToken
        /\ Hold(t, cache[bot[t]])
        /\ Goto(t, "ready")
  /\ UNCHANGED <<bot, result, cache, server, writes>>

(* The server issues the next token of bot b (external).                   *)
Issue(b) ==
  /\ issued[b] < MaxIssued
  /\ issued' = [issued EXCEPT ![b] = @ + 1]
  /\ alive' = [alive EXCEPT ![b] = IF b \in Rotates THEN {issued[b] + 1}
                                              ELSE @ \union {issued[b] + 1}]

(* get_token: the server issues a token and its answer is on the way.  A   *)
(* pool that retries GETs repeats the request when the answer is lost.     *)
FetchToken(t) ==
  /\ pc[t] \in {"fetching", "fetched"}
  /\ Issue(bot[t])
  /\ Hold(t, [bot |-> bot[t], n |-> issued[bot[t]] + 1])
  /\ Goto(t, "fetched")
  /\ UNCHANGED <<bot, result, cache, writes>>

(* get_token fails: refused or unreachable, or the token was issued but    *)
(* its answer is lost or unreadable.  The error ends the call and nothing  *)
(* is cached.                                                              *)
FetchFails(t) ==
  /\ \/ /\ pc[t] = "fetching"
        /\ \E e \in {"InvalidBotAccountError", "error"} : Finish(t, e)
     \/ /\ pc[t] = "fetched"
        /\ Finish(t, "error")
  /\ UNCHANGED <<cache, server, writes>>

(* Deliberate error: one token slot for all the bots.                      *)
SetTokenForAll(t) ==
  /\ pc[t] = "fetched"
  /\ cache' = [b \in Accounts |-> held[t]]
  /\ writes' = [writes EXCEPT ![bot[t]][t] = @ + 1]
  /\ Goto(t, "ready")
  /\ UNCHANGED <<bot, held, result, server>>

(* The token arrives and set_token assigns it, whatever others stored      *)
(* since this thread missed.                                               *)
SetToken(t) ==
  /\ pc[t] = "fetched"
  /\ cache' = [cache EXCEPT ![bot[t]] = held[t]]
  /\ writes' = [writes EXCEPT ![bot[t]][t] = @ + 1]
  /\ Goto(t, "ready")
  /\ UNCHANGED <<bot, held, result, server>>

Honoured(credential) ==
  credential.n = 0 \/ credential.n \in alive[credential.bot]

(* Deliberate error: a 401 clears the cached token.                        *)
CallApiForgets(t) ==
  /\ pc[t] = "ready"
  /\ \/ /\ Honoured(held[t])
        /\ Finish(t, "ok")
        /\ UNCHANGED cache
     \/ /\ ~Honoured(held[t])
        /\ Finish(t, "InvalidBotAccountError")
        /\ cache' = [cache EXCEPT ![bot[t]] = NoToken]
  /\ UNCHANGED <<server, writes>>

(* The authorised request itself: answered by the server, or lost.  A 401  *)
(* becomes InvalidBotAccountError; the cache is left as it is.             *)
CallApi(t) ==
  /\ pc[t] = "ready"
  /\ \/ /\ Honoured(held[t])
        /\ Finish(t, "ok")
     \/ /\ ~Honoured(held[t])
        /\ Finish(t, "InvalidBotAccountError")
     \/ Finish(t, "error")
  /\ UNCHANGED <<cache, server, writes>>

(* The server drops a token of its own accord, or because a request for a  *)
(* new one came after its sender had given up (external).                  *)
Revoke(b) ==
  /\ b \in Revokes
  /\ \E n \in alive[b] : alive' = [alive EXCEPT ![b] = @ \ {n}]
  /\ UNCHANGED <<calls, cache, issued, writes>>

ThreadStep(t) ==
  \/ BuildJwt(t)
  \/ ReadCache(t)
  \/ FetchToken(t)
  \/ FetchFails(t)
  \/ SetToken(t)
  \/ CallApi(t)

Next ==
  \/ \E t \in Threads, b \in BotIds : BeginCall(t, b)
  \/ \E t \in Threads : ThreadStep(t)
  \/ \E b \in Accounts : Revoke(b)

Spec == Init /\ [][Next]_vars
-----------------------------------------------------------------------------
TypeOK ==
  /\ pc \in [Threads -> {"idle", "authorizing", "fetching", "fetched", "ready"}]
  /\ bot \in [Threads -> Accounts]
  /\ held \in [Threads -> Credential \union {NoToken}]
  /\ result \in [Threads -> Results]
  /\ cache \in [Accounts -> Credential \union {NoToken}]
  /\ issued \in [Accounts -> 0..MaxIssued]
  /\ alive \in [Accounts -> SUBSET (1..MaxIssued)]
  /\ writes \in [Accounts -> [Threads -> Nat]]

Fetching(t, b) == pc[t] \in {"fetching", "fetched"} /\ bot[t] = b

IssuedTo(b, credential) ==
  \E n \in 1..issued[b] : credential = [bot |-> b, n |-> n]

OwnCached(b) ==
  cache[b] # NoToken => AuthVersion[b] = "V1" /\ IssuedTo(b, cache[b])

OwnHeld(t) ==
  pc[t] \in {"fetched", "ready"} =>
    \/ AuthVersion[bot[t]] = "V1" /\ IssuedTo(bot[t], held[t])
    \/ AuthVersion[bot[t]] = "V2" /\ held[t] = [bot |-> bot[t], n |-> 0]

(* Bots do not share tokens: what the storage caches for a bot, and what a *)
(* request made for it carries, is a token the server issued to that bot   *)
(* (its own JWT under V2, which caches nothing).                           *)
OwnCredential ==
  /\ \A b \in Accounts : OwnCached(b)
  /\ \A t \in Threads : OwnHeld(t)

(* The unlocked check-then-set of _add_authorization_headers costs at most *)
(* one redundant fetch per thread: no thread ever stores a second token    *)
(* for a bot, however its calls interleave with the others'.               *)
FetchedOncePerThread ==
  \A b \in Accounts, t \in Threads : writes[b][t] <= 1

(* The inductive invariant behind the theorems: a write fills the cache    *)
(* for good, and a thread between its miss and its write has not written   *)
(* before.                                                                 *)
WritesFill ==
  \A b \in Accounts, t \in Threads : writes[b][t] > 0 => cache[b] # NoToken

FetchersNeverWrote ==
  \A t \in Threads : pc[t] \in {"fetching", "fetched"} =>
    AuthVersion[bot[t]] = "V1" /\ writes[bot[t]][t] = 0

IInv ==
  /\ TypeOK
  /\ OwnCredential
  /\ FetchedOncePerThread
  /\ WritesFill
  /\ FetchersNeverWrote

(* A cached token the server no longer honours, with no fetch for the bot  *)
(* under way.                                                              *)
Dead(b) ==
  /\ cache[b] # NoToken
  /\ cache[b].n \notin alive[b]
  /\ \A t \in Threads : ~Fetching(t, b)

(* A 401 neither clears nor refreshes the cache, so a bot whose cached     *)
(* token has died stays dead: no later call can bring it back.             *)
DeadTokenStaysDead == [][\A b \in Accounts : Dead(b) => Dead(b)']_vars

(* Where the server neither retires nor revokes tokens, or with V2, an     *)
(* authorised request is never answered 401: racing fetches overwrite one  *)
(* good token by another, and no JWT depends on them.                      *)
Secure(b) == AuthVersion[b] = "V2" \/ b \notin Rotates \union Revokes

NoSpurious401 ==
  [][\A t \in Threads :
       pc[t] = "ready" /\ Secure(bot[t]) => result'[t] # "InvalidBotAccountError"]_vars

(* The calls above implement the lazy register.                            *)
Register == INSTANCE LazyToken WITH
  Token <- Credential,
  register <- cache,
  initialisers <- [b \in Accounts |-> {t \in Threads : Fetching(t, b)}]

ImplementsLazyToken == Register!Spec
=============================================================================
