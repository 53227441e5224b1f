-------------------------- MODULE TokenCacheProofs --------------------------
(***************************************************************************)
(* Theorems about TokenCache, for every set of threads and accounts, both  *)
(* authentication versions and every behaviour of the server.              *)
(***************************************************************************)
EXTENDS TokenCache, TLAPS

(* A credential is a record, which NoToken is not.                         *)
LEMMA CredentialKind ==
  /\ NoToken \notin Credential
  /\ \A b \in Accounts, n \in 0..MaxIssued : [bot |-> b, n |-> n] \in Credential
  BY TokenCacheAssumption DEF Credential

(* All the actions of Next, for the proofs that look at each of them.      *)
LEMMA NextCases ==
  ASSUME [Next]_vars
  PROVE  \/ \E t \in Threads, b \in BotIds : BeginCall(t, b)
         \/ \E t \in Threads : BuildJwt(t)
         \/ \E t \in Threads : ReadCache(t)
         \/ \E t \in Threads : FetchToken(t)
         \/ \E t \in Threads : FetchFails(t)
         \/ \E t \in Threads : SetToken(t)
         \/ \E t \in Threads : CallApi(t)
         \/ \E b \in Accounts : Revoke(b)
         \/ UNCHANGED vars
  BY DEF Next, ThreadStep

-----------------------------------------------------------------------------
(* Ending a call keeps the types of what it assigns; so does issuing.      *)
LEMMA FinishTypes ==
  ASSUME TypeOK, NEW t \in Threads, NEW outcome \in Results,
         Finish(t, outcome)
  PROVE  /\ pc' \in [Threads -> {"idle", "authorizing", "fetching", "fetched",
                                 "ready"}]
         /\ bot' \in [Threads -> Accounts]
         /\ held' \in [Threads -> Credential \union {NoToken}]
         /\ result' \in [Threads -> Results]
  BY DEF TypeOK, Finish, Goto, Hold

(* Issuing a token keeps the server's counters and its honoured tokens     *)
(* typed.                                                                  *)
LEMMA IssueTypes ==
  ASSUME TypeOK, NEW b \in Accounts, Issue(b)
  PROVE  /\ issued' \in [Accounts -> 0..MaxIssued]
         /\ alive' \in [Accounts -> SUBSET (1..MaxIssued)]
         /\ \A c \in Accounts : issued[c] <= issued'[c]
  BY TokenCacheAssumption DEF TypeOK, Issue

(* Tokens issued stay issued.                                              *)
LEMMA IssuedToGrows ==
  ASSUME TypeOK, issued' \in [Accounts -> 0..MaxIssued],
         \A c \in Accounts : issued[c] <= issued'[c],
         NEW b \in Accounts, NEW credential, IssuedTo(b, credential)
  PROVE  \E n \in 1..issued'[b] : credential = [bot |-> b, n |-> n]
  BY TokenCacheAssumption DEF TypeOK, IssuedTo

(* What was issued to a bot is a credential of that bot.                   *)
LEMMA IssuedToIsToken ==
  ASSUME TypeOK, NEW b \in Accounts, NEW credential, IssuedTo(b, credential)
  PROVE  credential \in Credential /\ credential # NoToken
  BY TokenCacheAssumption DEF TypeOK, IssuedTo, Credential

(* Every variable keeps its type.                                          *)
LEMMA TypeStep == TypeOK /\ [Next]_vars => TypeOK'
  <1> SUFFICES ASSUME TypeOK, [Next]_vars PROVE TypeOK'
    OBVIOUS
  <1> USE TokenCacheAssumption
      DEF TypeOK, Credential, Results, Goto, Hold, calls, server
  <1>1. ASSUME NEW t \in Threads, NEW b \in BotIds, BeginCall(t, b)
        PROVE  TypeOK'
    <2>1. CASE b \in Accounts
      <3>1. /\ pc' = [pc EXCEPT ![t] = "authorizing"]
            /\ bot' = [bot EXCEPT ![t] = b]
            /\ result' = [result EXCEPT ![t] = "none"]
            /\ UNCHANGED <<held, cache, issued, alive, writes>>
        BY <1>1, <2>1, Zenon DEF BeginCall
      <3>2. QED
        BY <2>1, <3>1
    <2>2. CASE b \notin Accounts
      <3>1. Finish(t, "UnknownBotAccountError")
        BY <1>1, <2>2, Zenon DEF BeginCall
      <3>2. UNCHANGED <<cache, issued, alive, writes>>
        BY <1>1 DEF BeginCall
      <3>3. QED
        BY <3>1, <3>2, FinishTypes
    <2>3. QED
      BY <2>1, <2>2
  <1>2. ASSUME NEW t \in Threads, BuildJwt(t) PROVE TypeOK'
    BY <1>2 DEF BuildJwt
  <1>3. ASSUME NEW t \in Threads, ReadCache(t) PROVE TypeOK'
    BY <1>3 DEF ReadCache
  <1>4. ASSUME NEW t \in Threads, FetchToken(t) PROVE TypeOK'
    BY <1>4 DEF FetchToken, Issue
  <1>5. ASSUME NEW t \in Threads, FetchFails(t) PROVE TypeOK'
    <2>1. PICK e \in Results : Finish(t, e)
      BY <1>5 DEF FetchFails
    <2>2. UNCHANGED <<cache, issued, alive, writes>>
      BY <1>5 DEF FetchFails
    <2>3. QED
      BY <2>1, <2>2, FinishTypes
  <1>6. ASSUME NEW t \in Threads, SetToken(t) PROVE TypeOK'
    BY <1>6 DEF SetToken
  <1>7. ASSUME NEW t \in Threads, CallApi(t) PROVE TypeOK'
    <2>1. PICK e \in Results : Finish(t, e)
      BY <1>7 DEF CallApi
    <2>2. UNCHANGED <<cache, issued, alive, writes>>
      BY <1>7 DEF CallApi
    <2>3. QED
      BY <2>1, <2>2, FinishTypes
  <1>8. ASSUME NEW b \in Accounts, Revoke(b) PROVE TypeOK'
    BY <1>8 DEF Revoke
  <1>9. CASE UNCHANGED vars
    BY <1>9 DEF vars
  <1>10. QED
    BY <1>1, <1>2, <1>3, <1>4, <1>5, <1>6, <1>7, <1>8, <1>9, NextCases

(* A bot's cache entry and a thread's credential, once right, stay right   *)
(* in a step that leaves them alone.                                       *)
LEMMA CachedFrame ==
  ASSUME TypeOK, issued' \in [Accounts -> 0..MaxIssued],
         \A c \in Accounts : issued[c] <= issued'[c],
         NEW b \in Accounts, OwnCached(b), cache'[b] = cache[b]
  PROVE  OwnCached(b)'
  <1> SUFFICES ASSUME cache'[b] # NoToken
               PROVE  AuthVersion[b] = "V1" /\ IssuedTo(b, cache[b])'
    BY DEF OwnCached
  <1>1. AuthVersion[b] = "V1" /\ IssuedTo(b, cache[b])
    BY DEF OwnCached
  <1>2. \E n \in 1..issued'[b] : cache[b] = [bot |-> b, n |-> n]
    BY <1>1, IssuedToGrows
  <1>3. QED
    BY <1>1, <1>2 DEF IssuedTo

(* A step that changes the place and the token of one thread only keeps    *)
(* OwnHeld of all others.                                                  *)
LEMMA HeldFrame ==
  ASSUME TypeOK, issued' \in [Accounts -> 0..MaxIssued],
         \A c \in Accounts : issued[c] <= issued'[c],
         NEW u \in Threads, OwnHeld(u),
         pc'[u] \in {"fetched", "ready"} =>
           pc[u] \in {"fetched", "ready"} /\ held'[u] = held[u] /\ bot'[u] = bot[u]
  PROVE  OwnHeld(u)'
  <1> SUFFICES ASSUME pc'[u] \in {"fetched", "ready"}
               PROVE  \/ AuthVersion[bot'[u]] = "V1" /\ IssuedTo(bot[u], held[u])'
                      \/ AuthVersion[bot'[u]] = "V2" /\ held'[u] = [bot |-> bot'[u], n |-> 0]
    BY DEF OwnHeld
  <1>1. bot[u] \in Accounts
    BY DEF TypeOK
  <1>2. CASE AuthVersion[bot[u]] = "V1" /\ IssuedTo(bot[u], held[u])
    <2>1. \E n \in 1..issued'[bot[u]] : held[u] = [bot |-> bot[u], n |-> n]
      BY <1>1, <1>2, IssuedToGrows
    <2>2. QED
      BY <1>2, <2>1 DEF IssuedTo
  <1>3. CASE AuthVersion[bot[u]] = "V2" /\ held[u] = [bot |-> bot[u], n |-> 0]
    BY <1>3
  <1>4. QED
    BY <1>2, <1>3 DEF OwnHeld

(* A step that issues nothing and writes no cache entry keeps              *)
(* OwnCredential if it keeps OwnHeld of the thread that takes it.          *)
LEMMA OwnCredentialFrame ==
  ASSUME TypeOK, OwnCredential,
         issued' \in [Accounts -> 0..MaxIssued],
         \A c \in Accounts : issued[c] <= issued'[c],
         UNCHANGED cache,
         \A u \in Threads : pc'[u] \in {"fetched", "ready"} =>
           pc[u] \in {"fetched", "ready"} /\ held'[u] = held[u] /\ bot'[u] = bot[u]
  PROVE  OwnCredential'
  BY CachedFrame, HeldFrame DEF OwnCredential

(* A thread's credential and the cached ones belong to the right bot.      *)
LEMMA OwnCredentialStep ==
  TypeOK /\ OwnCredential /\ FetchersNeverWrote /\ [Next]_vars => OwnCredential'
  <1> SUFFICES ASSUME TypeOK, OwnCredential, FetchersNeverWrote, [Next]_vars
               PROVE  OwnCredential'
    OBVIOUS
  <1>1. TypeOK'
    BY TypeStep
  <1>2. /\ issued' \in [Accounts -> 0..MaxIssued]
        /\ \A c \in Accounts : issued[c] <= issued'[c]
    <2>1. CASE UNCHANGED issued
      BY <2>1, TokenCacheAssumption DEF TypeOK
    <2>2. ASSUME NEW b \in Accounts, Issue(b) PROVE <1>2!1 /\ <1>2!2
      BY <2>2, IssueTypes
    <2>3. QED
      BY <2>1, <2>2, NextCases
      DEF BeginCall, BuildJwt, ReadCache, FetchToken, FetchFails, SetToken,
          CallApi, Revoke, TypeOK, server, vars
  <1>3. ASSUME NEW t \in Threads, NEW b \in BotIds, BeginCall(t, b)
        PROVE  OwnCredential'
    BY <1>2, <1>3, OwnCredentialFrame DEF BeginCall, Finish, Goto, Hold, TypeOK
  <1>4. ASSUME NEW t \in Threads, BuildJwt(t) PROVE OwnCredential'
    <2>1. OwnHeld(t)'
      BY <1>4 DEF BuildJwt, Goto, Hold, TypeOK, OwnHeld
    <2>2. \A u \in Threads \ {t} : OwnHeld(u)'
      BY <1>2, <1>4, HeldFrame DEF BuildJwt, Goto, Hold, TypeOK, OwnCredential
    <2>3. \A b \in Accounts : OwnCached(b)'
      BY <1>2, <1>4, CachedFrame DEF BuildJwt, OwnCredential
    <2>4. QED
      BY <2>1, <2>2, <2>3 DEF OwnCredential
  <1>5. ASSUME NEW t \in Threads, ReadCache(t) PROVE OwnCredential'
    <2>1. OwnHeld(t)'
      <3>1. CASE cache[bot[t]] = NoToken
        BY <1>5, <3>1 DEF ReadCache, Goto, TypeOK, OwnHeld
      <3>2. CASE cache[bot[t]] # NoToken
        <4>1. AuthVersion[bot[t]] = "V1" /\ IssuedTo(bot[t], cache[bot[t]])
          BY <3>2 DEF OwnCredential, OwnCached, TypeOK
        <4>2. held'[t] = cache[bot[t]] /\ UNCHANGED <<bot, issued>>
          BY <1>5, <3>2 DEF ReadCache, Hold, TypeOK, server
        <4>3. QED
          BY <4>1, <4>2 DEF OwnHeld, IssuedTo
      <3>3. QED
        BY <3>1, <3>2
    <2>2. \A u \in Threads \ {t} : OwnHeld(u)'
      BY <1>2, <1>5, HeldFrame DEF ReadCache, Goto, Hold, TypeOK, OwnCredential
    <2>3. \A b \in Accounts : OwnCached(b)'
      BY <1>2, <1>5, CachedFrame DEF ReadCache, OwnCredential
    <2>4. QED
      BY <2>1, <2>2, <2>3 DEF OwnCredential
  <1>6. ASSUME NEW t \in Threads, FetchToken(t) PROVE OwnCredential'
    <2>1. OwnHeld(t)'
      <3>1. AuthVersion[bot[t]] = "V1" /\ bot[t] \in Accounts
        BY <1>6 DEF FetchToken, FetchersNeverWrote, TypeOK
      <3>2. held'[t] = [bot |-> bot[t], n |-> issued[bot[t]] + 1]
        BY <1>6 DEF FetchToken, Hold, TypeOK
      <3>3. issued[bot[t]] + 1 \in 1..issued'[bot[t]]
        BY <1>6, <3>1, TokenCacheAssumption DEF FetchToken, Issue, TypeOK
      <3>4. QED
        BY <1>6, <3>1, <3>2, <3>3 DEF FetchToken, OwnHeld, IssuedTo
    <2>2. \A u \in Threads \ {t} : OwnHeld(u)'
      BY <1>2, <1>6, HeldFrame DEF FetchToken, Goto, Hold, TypeOK, OwnCredential
    <2>3. \A b \in Accounts : OwnCached(b)'
      BY <1>2, <1>6, CachedFrame DEF FetchToken, OwnCredential
    <2>4. QED
      BY <2>1, <2>2, <2>3 DEF OwnCredential
  <1>7. ASSUME NEW t \in Threads, FetchFails(t) PROVE OwnCredential'
    BY <1>2, <1>7, OwnCredentialFrame DEF FetchFails, Finish, Goto, Hold, TypeOK
  <1>8. ASSUME NEW t \in Threads, SetToken(t) PROVE OwnCredential'
    <2>1. bot[t] \in Accounts /\ AuthVersion[bot[t]] = "V1" /\ IssuedTo(bot[t], held[t])
      BY <1>8 DEF SetToken, TypeOK, OwnCredential, OwnHeld, FetchersNeverWrote
    <2>2. \A u \in Threads : OwnHeld(u)'
      BY <1>2, <1>8, HeldFrame DEF SetToken, Goto, TypeOK, OwnCredential
    <2>3. \A b \in Accounts : b = bot[t] => OwnCached(b)'
      BY <1>8, <2>1 DEF SetToken, OwnCached, IssuedTo, TypeOK, server
    <2>4. \A b \in Accounts \ {bot[t]} : OwnCached(b)'
      BY <1>2, <1>8, CachedFrame DEF SetToken, OwnCredential, TypeOK
    <2>5. QED
      BY <2>1, <2>2, <2>3, <2>4 DEF OwnCredential
  <1>9. ASSUME NEW t \in Threads, CallApi(t) PROVE OwnCredential'
    BY <1>2, <1>9, OwnCredentialFrame DEF CallApi, Finish, Goto, Hold, TypeOK
  <1>10. ASSUME NEW b \in Accounts, Revoke(b) PROVE OwnCredential'
    BY <1>2, <1>10, OwnCredentialFrame DEF Revoke, calls
  <1>11. CASE UNCHANGED vars
    BY <1>2, <1>11, OwnCredentialFrame DEF vars
  <1>12. QED
    BY <1>3, <1>4, <1>5, <1>6, <1>7, <1>8, <1>9, <1>10, <1>11, NextCases

(* A write fills the cache for good.                                       *)
LEMMA WritesFillStep ==
  TypeOK /\ OwnCredential /\ WritesFill /\ [Next]_vars => WritesFill'
  <1> SUFFICES ASSUME TypeOK, OwnCredential, WritesFill, [Next]_vars
               PROVE  WritesFill'
    OBVIOUS
  <1>1. ASSUME NEW t \in Threads, SetToken(t) PROVE WritesFill'
    <2>1. held[t] # NoToken
      <3>1. bot[t] \in Accounts /\ pc[t] = "fetched"
        BY <1>1 DEF SetToken, TypeOK
      <3>2. CASE IssuedTo(bot[t], held[t])
        BY <3>1, <3>2, IssuedToIsToken
      <3>3. CASE held[t] = [bot |-> bot[t], n |-> 0]
        BY <3>1, <3>3, CredentialKind, TokenCacheAssumption
      <3>4. QED
        BY <3>1, <3>2, <3>3 DEF OwnCredential, OwnHeld
    <2>2. cache'[bot[t]] # NoToken
      BY <1>1, <2>1 DEF SetToken, TypeOK
    <2>3. QED
      BY <1>1, <2>2 DEF SetToken, TypeOK, WritesFill
  <1>2. CASE UNCHANGED <<cache, writes>>
    BY <1>2 DEF WritesFill
  <1>3. QED
    BY <1>1, <1>2, NextCases
    DEF BeginCall, BuildJwt, ReadCache, FetchToken, FetchFails, CallApi, Revoke,
        vars

(* A thread that misses has not written for that bot: a bot it has written *)
(* for never misses again.                                                 *)
LEMMA FetchersNeverWroteStep ==
  /\ TypeOK /\ WritesFill /\ FetchersNeverWrote /\ [Next]_vars
  => FetchersNeverWrote'
  <1> SUFFICES ASSUME TypeOK, WritesFill, FetchersNeverWrote, [Next]_vars
               PROVE  FetchersNeverWrote'
    OBVIOUS
  <1> USE DEF TypeOK, FetchersNeverWrote, Goto
  <1>1. ASSUME NEW t \in Threads, NEW b \in BotIds, BeginCall(t, b)
        PROVE  FetchersNeverWrote'
    BY <1>1 DEF BeginCall, Finish
  <1>2. ASSUME NEW t \in Threads, ReadCache(t) PROVE FetchersNeverWrote'
    <2>1. CASE cache[bot[t]] = NoToken
      <3>1. writes[bot[t]][t] = 0
        BY <2>1 DEF WritesFill
      <3>2. QED
        BY <1>2, <3>1 DEF ReadCache
    <2>2. CASE cache[bot[t]] # NoToken
      BY <1>2, <2>2 DEF ReadCache
    <2>3. QED
      BY <2>1, <2>2
  <1>3. ASSUME NEW t \in Threads, SetToken(t) PROVE FetchersNeverWrote'
    BY <1>3 DEF SetToken
  <1>4. ASSUME NEW t \in Threads, BuildJwt(t) \/ FetchToken(t)
        PROVE  FetchersNeverWrote'
    BY <1>4 DEF BuildJwt, FetchToken
  <1>5. ASSUME NEW t \in Threads, FetchFails(t) \/ CallApi(t)
        PROVE  FetchersNeverWrote'
    BY <1>5 DEF FetchFails, CallApi, Finish
  <1>6. ASSUME NEW b \in Accounts, Revoke(b) PROVE FetchersNeverWrote'
    BY <1>6 DEF Revoke, calls
  <1>7. CASE UNCHANGED vars
    BY <1>7 DEF vars
  <1>8. QED
    BY <1>1, <1>2, <1>3, <1>4, <1>5, <1>6, <1>7, NextCases

(* A write by a thread that has not written yet is its first.              *)
LEMMA FetchedOnceStep ==
  /\ TypeOK /\ FetchersNeverWrote /\ FetchedOncePerThread /\ [Next]_vars
  => FetchedOncePerThread'
  <1> SUFFICES ASSUME TypeOK, FetchersNeverWrote, FetchedOncePerThread, [Next]_vars
               PROVE  FetchedOncePerThread'
    OBVIOUS
  <1>1. ASSUME NEW t \in Threads, SetToken(t) PROVE FetchedOncePerThread'
    BY <1>1 DEF SetToken, TypeOK, FetchersNeverWrote, FetchedOncePerThread
  <1>2. CASE UNCHANGED writes
    BY <1>2 DEF FetchedOncePerThread
  <1>3. QED
    BY <1>1, <1>2, NextCases
    DEF BeginCall, BuildJwt, ReadCache, FetchToken, FetchFails, CallApi, Revoke,
        vars

(* The inductive invariant holds initially.                                *)
LEMMA InitIInv == Init => IInv
  <1> SUFFICES ASSUME Init PROVE IInv
    OBVIOUS
  <1>1. TypeOK
    BY TokenCacheAssumption DEF Init, TypeOK, Results
  <1>2. OwnCredential
    BY DEF Init, OwnCredential, OwnCached, OwnHeld
  <1>3. FetchedOncePerThread /\ WritesFill /\ FetchersNeverWrote
    BY DEF Init, FetchedOncePerThread, WritesFill, FetchersNeverWrote
  <1>4. QED
    BY <1>1, <1>2, <1>3 DEF IInv

(* Every step preserves the inductive invariant.                           *)
LEMMA NextIInv == IInv /\ [Next]_vars => IInv'
  BY TypeStep, OwnCredentialStep, WritesFillStep, FetchersNeverWroteStep,
     FetchedOnceStep
  DEF IInv

(* The inductive invariant holds in every reachable state.                 *)
THEOREM Invariance == Spec => []IInv
  BY InitIInv, NextIInv, PTL DEF Spec

(* Every variable of _add_authorization_headers and of the storage keeps   *)
(* its type.                                                               *)
THEOREM TypeCorrect == Spec => []TypeOK
  BY Invariance, PTL DEF IInv

(* No request carries, and no cache entry holds, another bot's token.      *)
THEOREM CredentialsBelong == Spec => []OwnCredential
  BY Invariance, PTL DEF IInv

(* The unlocked check-then-set of the token cache lets a thread store at   *)
(* most one token per bot.                                                 *)
THEOREM FetchBound == Spec => []FetchedOncePerThread
  BY Invariance, PTL DEF IInv

-----------------------------------------------------------------------------
(* A dead cached token is never replaced: whoever reads the cache from now *)
(* on finds it, and nobody is left who would write.                        *)
LEMMA DeadStep ==
  ASSUME IInv, [Next]_vars, NEW b \in Accounts, Dead(b)
  PROVE  Dead(b)'
  <1> USE DEF IInv, TypeOK, Dead, Fetching
  <1>1. cache'[b] = cache[b]
    <2>1. ASSUME NEW t \in Threads, SetToken(t) PROVE cache'[b] = cache[b]
      BY <2>1 DEF SetToken
    <2>2. QED
      BY <2>1, NextCases
      DEF BeginCall, BuildJwt, ReadCache, FetchToken, FetchFails, CallApi,
          Revoke, vars
  <1> DEFINE Settled == \A u \in Threads :
               ~(pc'[u] \in {"fetching", "fetched"} /\ bot'[u] = b)
  <1>2. Settled
    <2>1. ASSUME NEW t \in Threads, NEW c \in BotIds, BeginCall(t, c)
          PROVE  Settled
      BY <2>1 DEF BeginCall, Finish, Goto
    <2>2. ASSUME NEW t \in Threads, ReadCache(t) PROVE Settled
      BY <2>2 DEF ReadCache, Goto
    <2>3. ASSUME NEW t \in Threads, BuildJwt(t) \/ FetchToken(t) \/ SetToken(t)
          PROVE  Settled
      BY <2>3 DEF BuildJwt, FetchToken, SetToken, Goto
    <2>4. ASSUME NEW t \in Threads, FetchFails(t) \/ CallApi(t) PROVE Settled
      BY <2>4 DEF FetchFails, CallApi, Finish, Goto
    <2>5. ASSUME NEW c \in Accounts, Revoke(c) PROVE Settled
      BY <2>5 DEF Revoke, calls
    <2>6. CASE UNCHANGED vars
      BY <2>6 DEF vars
    <2>7. QED
      BY <2>1, <2>2, <2>3, <2>4, <2>5, <2>6, NextCases
  <1>3. cache[b].n \notin alive'[b]
    <2>1. cache[b].n \in 1..issued[b]
      BY DEF OwnCredential, OwnCached, IssuedTo
    <2>2. ASSUME NEW c \in Accounts, Issue(c) PROVE cache[b].n \notin alive'[b]
      BY <2>1, <2>2, TokenCacheAssumption DEF Issue
    <2>3. ASSUME NEW c \in Accounts, Revoke(c) PROVE cache[b].n \notin alive'[b]
      BY <2>3 DEF Revoke
    <2>4. CASE UNCHANGED alive
      BY <2>4
    <2>5. QED
      BY <2>2, <2>3, <2>4, NextCases
      DEF BeginCall, BuildJwt, ReadCache, FetchToken, FetchFails, SetToken,
          CallApi, server, vars
  <1>4. QED
    BY <1>1, <1>2, <1>3

(* No later call brings back a bot whose cached token the server has       *)
(* dropped.                                                                *)
THEOREM DeadForever == Spec => DeadTokenStaysDead
  <1>1. IInv /\ [Next]_vars => [\A b \in Accounts : Dead(b) => Dead(b)']_vars
    BY DeadStep
  <1>2. QED
    BY <1>1, Invariance, PTL DEF Spec, DeadTokenStaysDead

-----------------------------------------------------------------------------
(* The refinement: a miss, a write and a failed fetch are the register's   *)
(* three steps, everything else leaves it and its initialisers alone.      *)
Initialisers == [b \in Accounts |-> {t \in Threads : Fetching(t, b)}]

(* Initially every register is empty and nobody initialises one.           *)
LEMMA InitRefines == Init => Register!Init
  BY DEF Init, Register!Init, Fetching

(* A cache miss makes the thread an initialiser.                           *)
LEMMA MissRefines ==
  ASSUME IInv, NEW t \in Threads, ReadCache(t), cache[bot[t]] = NoToken
  PROVE  Register!Miss(t, bot[t])
  <1>1. pc' = [pc EXCEPT ![t] = "fetching"] /\ UNCHANGED <<bot, cache>>
    BY DEF ReadCache, Goto
  <1>2. pc[t] = "authorizing"
    BY DEF ReadCache
  <1>3. \A u \in Threads, b \in Accounts :
          Fetching(u, b)' <=> Fetching(u, b) \/ (u = t /\ b = bot[t])
    BY <1>1, <1>2 DEF Fetching, IInv, TypeOK
  <1>4. \A b \in Accounts :
          {u \in Threads : Fetching(u, b)'} =
            IF b = bot[t] THEN {u \in Threads : Fetching(u, b)} \union {t}
                          ELSE {u \in Threads : Fetching(u, b)}
    BY <1>3
  <1>5. Initialisers' = [Initialisers EXCEPT ![bot[t]] = @ \union {t}]
    BY <1>4 DEF Initialisers
  <1>6. QED
    BY <1>1, <1>5 DEF Register!Miss, Initialisers

(* A thread that leaves its fetch is an initialiser of its bot no more,    *)
(* and no other thread's role changes.                                     *)
LEMMA LeavesFetching ==
  ASSUME IInv, NEW t \in Threads, pc[t] \in {"fetching", "fetched"},
         NEW place \in {"ready", "idle"}, pc' = [pc EXCEPT ![t] = place],
         UNCHANGED bot
  PROVE  /\ t \in Initialisers[bot[t]]
         /\ Initialisers' = [Initialisers EXCEPT ![bot[t]] = @ \ {t}]
  <1>1. t \in Initialisers[bot[t]]
    BY DEF Initialisers, Fetching, IInv, TypeOK
  <1>2. \A u \in Threads, b \in Accounts :
          Fetching(u, b)' <=> Fetching(u, b) /\ u # t
    BY DEF Fetching, IInv, TypeOK
  <1>3. \A b \in Accounts :
          {u \in Threads : Fetching(u, b)'} =
            IF b = bot[t] THEN {u \in Threads : Fetching(u, b)} \ {t}
                          ELSE {u \in Threads : Fetching(u, b)}
    BY <1>2 DEF Fetching
  <1>4. Initialisers' = [Initialisers EXCEPT ![bot[t]] = @ \ {t}]
    BY <1>3 DEF Initialisers
  <1>5. QED
    BY <1>1, <1>4

(* set_token fills the register.                                           *)
LEMMA SetTokenRefines ==
  ASSUME IInv, NEW t \in Threads, SetToken(t)
  PROVE  Register!Fill(t, bot[t], held[t])
  <1>1. /\ pc[t] = "fetched"
        /\ pc' = [pc EXCEPT ![t] = "ready"]
        /\ cache' = [cache EXCEPT ![bot[t]] = held[t]]
        /\ UNCHANGED bot
    BY DEF SetToken, Goto
  <1>2. /\ t \in Initialisers[bot[t]]
        /\ Initialisers' = [Initialisers EXCEPT ![bot[t]] = @ \ {t}]
    BY <1>1, LeavesFetching
  <1>3. QED
    BY <1>1, <1>2 DEF Register!Fill, Initialisers

(* A failed fetch gives the initialiser's role up.                         *)
LEMMA FetchFailsRefines ==
  ASSUME IInv, NEW t \in Threads, FetchFails(t)
  PROVE  Register!GiveUp(t, bot[t])
  <1>1. /\ pc[t] \in {"fetching", "fetched"}
        /\ pc' = [pc EXCEPT ![t] = "idle"]
        /\ UNCHANGED <<bot, cache>>
    BY DEF FetchFails, Finish, Goto
  <1>2. /\ t \in Initialisers[bot[t]]
        /\ Initialisers' = [Initialisers EXCEPT ![bot[t]] = @ \ {t}]
    BY <1>1, LeavesFetching
  <1>3. QED
    BY <1>1, <1>2 DEF Register!GiveUp, Initialisers

(* A step that neither writes the cache nor enters or leaves a fetch is a  *)
(* stutter of the register.                                                *)
LEMMA StutterRefines ==
  ASSUME IInv, UNCHANGED cache,
         \A u \in Threads, b \in Accounts : Fetching(u, b)' <=> Fetching(u, b)
  PROVE  UNCHANGED Register!vars
  <1>1. Initialisers' = Initialisers
    BY DEF Initialisers
  <1>2. QED
    BY <1>1 DEF Register!vars, Initialisers

(* Every step of the calls is a step or a stutter of the register.         *)
LEMMA StepRefines == IInv /\ [Next]_vars => [Register!Next]_(Register!vars)
  <1> SUFFICES ASSUME IInv, [Next]_vars PROVE [Register!Next]_(Register!vars)
    OBVIOUS
  <1> USE DEF IInv, TypeOK
  <1>1. ASSUME NEW t \in Threads, NEW b \in BotIds, BeginCall(t, b)
        PROVE  UNCHANGED Register!vars
    BY <1>1, StutterRefines DEF BeginCall, Finish, Goto, Fetching
  <1>2. ASSUME NEW t \in Threads, ReadCache(t)
        PROVE  [Register!Next]_(Register!vars)
    <2>1. CASE cache[bot[t]] = NoToken
      BY <1>2, <2>1, MissRefines DEF Register!Next
    <2>2. CASE cache[bot[t]] # NoToken
      <3>1. UNCHANGED Register!vars
        BY <1>2, <2>2, StutterRefines DEF ReadCache, Goto, Fetching
      <3>2. QED
        BY <3>1
    <2>3. QED
      BY <2>1, <2>2
  <1>3. ASSUME NEW t \in Threads, BuildJwt(t) \/ FetchToken(t)
        PROVE  UNCHANGED Register!vars
    BY <1>3, StutterRefines DEF BuildJwt, FetchToken, Goto, Fetching
  <1>4. ASSUME NEW t \in Threads, FetchFails(t) PROVE Register!Next
    BY <1>4, FetchFailsRefines DEF Register!Next
  <1>5. ASSUME NEW t \in Threads, SetToken(t) PROVE Register!Next
    <2>1. held[t] \in Credential
      <3>1. CASE IssuedTo(bot[t], held[t])
        BY <3>1, IssuedToIsToken
      <3>2. CASE held[t] = [bot |-> bot[t], n |-> 0]
        BY <3>2, CredentialKind, TokenCacheAssumption
      <3>3. QED
        BY <1>5, <3>1, <3>2 DEF SetToken, OwnCredential, OwnHeld
    <2>2. QED
      BY <1>5, <2>1, SetTokenRefines DEF Register!Next
  <1>6. ASSUME NEW t \in Threads, CallApi(t) PROVE UNCHANGED Register!vars
    BY <1>6, StutterRefines DEF CallApi, Finish, Goto, Fetching
  <1>7. ASSUME NEW b \in Accounts, Revoke(b) PROVE UNCHANGED Register!vars
    BY <1>7, StutterRefines DEF Revoke, calls, Fetching
  <1>8. CASE UNCHANGED vars
    <2>1. UNCHANGED Register!vars
      BY <1>8, StutterRefines DEF vars, Fetching
    <2>2. QED
      BY <2>1
  <1>9. QED
    BY <1>1, <1>2, <1>3, <1>4, <1>5, <1>6, <1>7, <1>8, NextCases

(* The calls of any number of threads implement the lazy register.         *)
THEOREM Refinement == Spec => ImplementsLazyToken
  BY InitRefines, StepRefines, Invariance, PTL
  DEF Spec, ImplementsLazyToken, Register!Spec

-----------------------------------------------------------------------------
(* A server that neither retires nor revokes honours every token it issued.*)
Faithful ==
  \A b \in Accounts \ (Rotates \union Revokes) : alive[b] = 1..issued[b]

(* It goes on honouring them.                                              *)
LEMMA FaithfulStep ==
  ASSUME TypeOK, Faithful, [Next]_vars
  PROVE  Faithful'
  <1>1. ASSUME NEW b \in Accounts, Issue(b) PROVE Faithful'
    <2>1. issued[b] \in Nat
      BY TokenCacheAssumption DEF TypeOK
    <2>2. 1..(issued[b] + 1) = 1..issued[b] \union {issued[b] + 1}
      BY <2>1
    <2>3. QED
      BY <1>1, <2>2 DEF Issue, Faithful, TypeOK
  <1>2. CASE UNCHANGED server
    BY <1>2 DEF server, Faithful
  <1>3. ASSUME NEW b \in Accounts, Revoke(b) PROVE Faithful'
    BY <1>3 DEF Revoke, Faithful, TypeOK
  <1>4. QED
    BY <1>1, <1>2, <1>3, NextCases
    DEF BeginCall, BuildJwt, ReadCache, FetchToken, FetchFails, SetToken,
        CallApi, TypeOK, server, vars

(* While a call is under way its result is still open.                     *)
Open == \A t \in Threads : pc[t] # "idle" => result[t] = "none"

(* Every step leaves the results of unfinished calls open.                 *)
LEMMA OpenStep ==
  ASSUME TypeOK, Open, [Next]_vars
  PROVE  Open'
  <1> USE DEF TypeOK, Open, Goto
  <1>1. ASSUME NEW t \in Threads, NEW b \in BotIds, BeginCall(t, b) PROVE Open'
    BY <1>1 DEF BeginCall, Finish
  <1>2. ASSUME NEW t \in Threads, FetchFails(t) \/ CallApi(t) PROVE Open'
    BY <1>2 DEF FetchFails, CallApi, Finish
  <1>3. ASSUME NEW t \in Threads, BuildJwt(t) \/ ReadCache(t) PROVE Open'
    BY <1>3 DEF BuildJwt, ReadCache
  <1>4. ASSUME NEW t \in Threads, FetchToken(t) \/ SetToken(t) PROVE Open'
    BY <1>4 DEF FetchToken, SetToken
  <1>5. ASSUME NEW b \in Accounts, Revoke(b) PROVE Open'
    BY <1>5 DEF Revoke, calls
  <1>6. CASE UNCHANGED vars
    BY <1>6 DEF vars
  <1>7. QED
    BY <1>1, <1>2, <1>3, <1>4, <1>5, <1>6, NextCases

(* What a request carries, a faithful server honours, and any server a JWT.*)
LEMMA ReadyIsHonoured ==
  ASSUME IInv, Faithful, NEW t \in Threads, pc[t] = "ready", Secure(bot[t])
  PROVE  Honoured(held[t])
  <1>1. bot[t] \in Accounts
    BY DEF IInv, TypeOK
  <1>2. CASE AuthVersion[bot[t]] = "V1" /\ IssuedTo(bot[t], held[t])
    <2>0. bot[t] \in Accounts \ (Rotates \union Revokes)
      BY <1>1, <1>2 DEF Secure
    <2>1. PICK n \in 1..issued[bot[t]] : held[t] = [bot |-> bot[t], n |-> n]
      BY <1>2 DEF IssuedTo
    <2>2. held[t].n = n /\ held[t].bot = bot[t]
      BY <2>1
    <2>3. n \in alive[bot[t]]
      BY <2>0, <2>1, Zenon DEF Faithful
    <2>4. QED
      BY <2>2, <2>3 DEF Honoured
  <1>3. CASE held[t] = [bot |-> bot[t], n |-> 0]
    BY <1>3 DEF Honoured
  <1>4. QED
    BY <1>2, <1>3 DEF IInv, OwnCredential, OwnHeld

(* A request that carries an honoured token is not answered 401.           *)
LEMMA No401Step ==
  ASSUME IInv, Faithful, Open, [Next]_vars, NEW t \in Threads, pc[t] = "ready",
         Secure(bot[t])
  PROVE  result'[t] # "InvalidBotAccountError"
  <1>1. result[t] = "none"
    BY DEF Open
  <1> USE DEF IInv, TypeOK
  <1>2. ASSUME NEW u \in Threads, NEW b \in BotIds, BeginCall(u, b)
        PROVE  result'[t] # "InvalidBotAccountError"
    BY <1>1, <1>2 DEF BeginCall, Finish
  <1>3. ASSUME NEW u \in Threads, FetchFails(u)
        PROVE  result'[t] # "InvalidBotAccountError"
    BY <1>1, <1>3 DEF FetchFails, Finish
  <1>4. ASSUME NEW u \in Threads, CallApi(u)
        PROVE  result'[t] # "InvalidBotAccountError"
    <2>1. Honoured(held[t])
      BY ReadyIsHonoured
    <2>2. QED
      BY <1>1, <1>4, <2>1 DEF CallApi, Finish
  <1>5. CASE UNCHANGED result
    BY <1>1, <1>5
  <1>6. QED
    BY <1>2, <1>3, <1>4, <1>5, NextCases
    DEF BuildJwt, ReadCache, FetchToken, SetToken, Revoke, calls, vars

(* Racing fetches never make a good server answer 401.                     *)
THEOREM NoRaceCauses401 == Spec => NoSpurious401
  <1>1. Init => Faithful /\ Open
    BY DEF Init, Faithful, Open
  <1>2. IInv /\ Faithful /\ Open /\ [Next]_vars => Faithful' /\ Open'
    BY FaithfulStep, OpenStep DEF IInv
  <1>3. IInv /\ Faithful /\ Open /\ [Next]_vars =>
          [\A t \in Threads :
             pc[t] = "ready" /\ Secure(bot[t]) =>
               result'[t] # "InvalidBotAccountError"]_vars
    BY No401Step
  <1>4. QED
    BY <1>1, <1>2, <1>3, Invariance, PTL DEF Spec, NoSpurious401
=============================================================================
