------------------------------ MODULE MCWebhook ------------------------------
EXTENDS Webhook

CONSTANTS t1, t2

OneHost == [b \in Accounts |-> "cts"]

Audiences ==
  {[shape |-> "none", items |-> <<>>]}
    \union {[shape |-> "text", items |-> <<c>>] : c \in {"cts", "other"}}
    \union {[shape |-> "list", items |-> <<c>>] : c \in {"other"} \union BotIds}
    \union {[shape |-> "list", items |-> <<b, b>>] : b \in Accounts}

(* Fresh when it comes: it may expire at once.  Only the identifier of a   *)
(* bot has other spellings.                                                *)
Tokens ==
  {token \in [version : {1, 2}, iss : {"absent", "cts", "other"} \union BotIds,
              canonical : BOOLEAN, aud : Audiences,
              signer : Accounts \union {"nobody"}, fresh : {TRUE}] :
     token.iss \notin BotIds => token.canonical}

Of(headers, bodies) ==
  [endpoint : Endpoints, authorization : headers, body : bodies]

(* Every token with bodies of every bot, every body with one good token.   *)
GoodToken ==
  [version |-> 2, iss |-> "a", canonical |-> TRUE, signer |-> "a", fresh |-> TRUE,
   aud |-> [shape |-> "text", items |-> <<"cts">>]]

EveryToken ==
  [endpoint : {"/command", "/notification/callback"},
   authorization : {Garbled} \union Tokens,
   body : [shape : {"valid"}, bot : Accounts, target : {"registered"}]]

EveryBody == Of({GoodToken, Garbled}, Bodies)

TokensAndBodies == EveryToken \union EveryBody

(* A good token of each version and one of a stranger.                     *)
FewTokens ==
  {GoodToken, [GoodToken EXCEPT !.iss = "stranger"],
   [GoodToken EXCEPT !.version = 1, !.iss = "cts",
                     !.aud = [shape |-> "list", items |-> <<"a">>]]}

FewRequests ==
  [t \in Threads |->
     Of(FewTokens, [shape : {"unparsable", "valid"}, bot : {"a"},
                    target : {"registered", "blank"}])]

(* Whatever comes to one thread while another serves a good command.       *)
EveryRequest ==
  [t \in Threads |->
     IF t = t1 THEN TokensAndBodies
     ELSE [endpoint : {"/command"}, authorization : {GoodToken},
           body : [shape : {"valid"}, bot : {"a"}, target : {"registered"}]]]

=============================================================================
