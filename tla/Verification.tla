---------------------------- MODULE Verification ----------------------------
(***************************************************************************)
(* pybotx/bot/verification.py: from the authorization header of a request  *)
(* to the bot account it was made for, or the exception raised.            *)
(* A token is what the code tells apart of a JWT:                          *)
(*   version   the "version" claim, 2 or anything else                     *)
(*   iss       a bot id, a host, other text, or "absent" for no text       *)
(*   canonical is a bot id in iss spelled the way str(UUID) spells it?     *)
(*   aud       its shape and items: no usable claim, one text, or a list   *)
(*   signer    whose secret_key signed it: a bot id, or "nobody"           *)
(*   fresh     do its exp, nbf and iat claims, if any, hold now (leeway 1)? *)
(* "garbled" is what jwt cannot decode (external).                         *)
(***************************************************************************)
EXTENDS Naturals, Sequences

CONSTANTS
  Accounts,  \* ids of the bot accounts in BotAccountsStorage
  Strangers, \* bot ids with no account
  Host,      \* Host[b]: BotAccountWithSecret.host, taken from cts_url
  Garbled    \* a header whose token cannot be decoded; or no header at all

BotIds == Accounts \union Strangers

ASSUME VerificationAssumption ==
  /\ Accounts \intersect Strangers = {}
  /\ Host \in [Accounts -> STRING]
  /\ \A b \in Accounts : Host[b] \notin BotIds \union {"absent"}
  /\ {"UnverifiedRequestError", "UnknownBotAccountError", "ValueError"}
       \intersect BotIds = {}

Jwts ==
  [version : Nat, iss : STRING, canonical : BOOLEAN,
   aud : [shape : STRING, items : Seq(STRING)], signer : STRING, fresh : BOOLEAN]

(* Deliberate error: the claim alone tells the version.                    *)
IsV2ByClaim(token) == token.version = 2

(* _is_v2_payload: by its claim, or by the look of aud and iss.            *)
IsV2Payload(token) ==
  \/ token.version = 2
  \/ token.aud.shape = "text" /\ token.iss \in BotIds

(* The second jwt.decode: signature, times.                                *)
Signed(token, b) == token.signer = b /\ token.fresh

(* Deliberate error: the signature is not checked again.                   *)
VerifyV2Unsigned(token) ==
  IF token.iss \in Accounts /\ token.aud.items = <<Host[token.iss]>>
  THEN token.iss
  ELSE "UnverifiedRequestError"

(* _verify_request_v2: unlike in V1, UnknownBotAccountError is not         *)
(* converted.  jwt compares iss as text, after UUID(iss) found the account *)
(* under any spelling.                                                     *)
VerifyV2(token) ==
  CASE token.iss \notin BotIds  -> "UnverifiedRequestError"
    [] token.iss \in Strangers  -> "UnknownBotAccountError"
    [] token.iss \in Accounts   ->
         IF /\ token.aud = [shape |-> "text", items |-> <<Host[token.iss]>>]
            /\ Signed(token, token.iss)
            /\ token.canonical
         THEN token.iss
         ELSE "UnverifiedRequestError"

(* Deliberate error: the issuer is left to jwt, which is told not to check.*)
VerifyV1AnyIssuer(token, trusted) ==
  IF /\ token.aud.shape = "list"
     /\ Len(token.aud.items) = 1
     /\ token.aud.items[1] \in Accounts
     /\ Signed(token, token.aud.items[1])
  THEN token.aud.items[1]
  ELSE "UnverifiedRequestError"

(* _verify_request_v1: the audience names the bot, the issuer must be its  *)
(* host or a trusted one.  An audience that is no UUID is not converted.   *)
VerifyV1(token, trusted) ==
  IF token.aud.shape # "list" \/ Len(token.aud.items) # 1
  THEN "UnverifiedRequestError"
  ELSE LET b == token.aud.items[1] IN
    CASE b \notin BotIds -> "ValueError"
      [] b \in Strangers -> "UnverifiedRequestError"
      [] b \in Accounts  ->
           IF Signed(token, b) /\ token.iss \in {Host[b]} \union trusted
           THEN b
           ELSE "UnverifiedRequestError"

(* verify_request; the resources pass no trusted issuers.                  *)
VerifyToken(authorization, trusted) ==
  IF authorization = Garbled
  THEN "UnverifiedRequestError"
  ELSE IF IsV2Payload(authorization)
       THEN VerifyV2(authorization)
       ELSE VerifyV1(authorization, trusted)

-----------------------------------------------------------------------------
(* What verification is for, without its steps: the bot's own secret       *)
(* signed the token, which is valid now and names the two sides, the bot   *)
(* and its server, in the way of its version.                              *)
Authentic(token, b) ==
  /\ token.signer = b
  /\ token.fresh
  /\ \/ /\ token.iss = b
        /\ token.canonical
        /\ token.aud = [shape |-> "text", items |-> <<Host[b]>>]
     \/ /\ token.version # 2
        /\ token.iss = Host[b]
        /\ token.aud = [shape |-> "list", items |-> <<b>>]
=============================================================================
