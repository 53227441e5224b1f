------------------------------- MODULE Answers -------------------------------
(***************************************************************************)
(* What a BotX API method makes of the server's answer: the status         *)
(* handlers, the check of the status, the response model and what follows  *)
(* it, as operators from a method and an answer to an outcome.             *)
(*   pybotx/client/botx_method.py            _raise_for_status and models  *)
(*   pybotx/client/*_api/*.py                handlers that read the body   *)
(* A method is a record: its verb, whether its answer is streamed, its     *)
(* status handlers and the kind of its response model.                     *)
(***************************************************************************)
EXTENDS Naturals

(* The reasons the handlers and the sync map look for, and one they do not *)
(* know.                                                                   *)
Reasons ==
  {"chat_members_not_modifiable", "admins_not_changed",
   "error_from_messaging_service", "thread_already_created",
   "file_metadata_not_found", "chat_not_found", "pack_not_found",
   "emoji_invalid", "image_invalid", "bot_is_not_a_chat_member",
   "event_recipients_list_is_empty", "stealth_mode_disabled", "other_reason"}

(* Bodies, by what the code tells apart: a well-formed result, one whose   *)
(* stickers_order misses a sticker, an empty list as the result, no result *)
(* at all, an error object with its reason, JSON that is not an object,    *)
(* text that is not JSON, and bytes that are not text.                     *)
Bodies ==
  {"complete", "misordered", "empty", "bare", "array", "garbage", "undecodable"}
    \union Reasons

Succeeded(status) == status \in 200..299

-----------------------------------------------------------------------------
(* Status handlers.  Most raise one exception whatever the body says; a    *)
(* few parse the body and choose by its reason.                            *)
Raises(exception) ==
  [reads |-> FALSE, named |-> <<>>, otherwise |-> exception, absent |-> exception]

ByReason(named, otherwise, absent) ==
  [reads |-> TRUE, named |-> named, otherwise |-> otherwise, absent |-> absent]

(* The handlers that read the body do so outside _verify_and_extract:      *)
(* nothing converts what json.loads and .get raise.                        *)
Handled(handler, body) ==
  IF ~handler.reads
  THEN handler.otherwise
  ELSE CASE body = "garbage"     -> "JSONDecodeError"
         [] body = "undecodable" -> "UnicodeDecodeError"
         [] body = "array"       -> "AttributeError"
         [] body \in Reasons     -> IF body \in DOMAIN handler.named
                                    THEN handler.named[body]
                                    ELSE handler.otherwise
         [] OTHER                -> handler.absent

(* Deliberate error: the status decides before the handlers are asked.     *)
RefusalByClass(method, answer) ==
  CASE Succeeded(answer.status) -> "none"
    [] ~Succeeded(answer.status) /\ answer.status \in DOMAIN method.handlers ->
         Handled(method.handlers[answer.status], answer.body)
    [] OTHER -> "InvalidBotXStatusCodeError"

(* Deliberate error: a status nobody handles is let through.               *)
RefusalByHandlerOnly(method, answer) ==
  IF answer.status \in DOMAIN method.handlers
  THEN Handled(method.handlers[answer.status], answer.body)
  ELSE "none"

(* _raise_for_status: a handler, if the method has one for this status,    *)
(* comes before the check of the status class, even for a 2xx.             *)
Refusal(method, answer) ==
  CASE answer.status \in DOMAIN method.handlers ->
         Handled(method.handlers[answer.status], answer.body)
    [] answer.status \notin DOMAIN method.handlers /\ Succeeded(answer.status) ->
         "none"
    [] OTHER -> "InvalidBotXStatusCodeError"

-----------------------------------------------------------------------------
(* Response models, by what they require of "result": nothing, an object,  *)
(* a sticker pack, a list, a list of which the first is taken, or the sync *)
(* notification's optional result beside status "error".                   *)
Models == {"status", "object", "pack", "list", "first", "sync", "file"}

Validates(model, body) ==
  CASE model = "status"            -> body \in {"complete", "bare", "empty"}
    [] model = "object"            -> body = "complete"
    [] model = "pack"              -> body \in {"complete", "misordered"}
    [] model \in {"list", "first"} -> body \in {"complete", "empty"}
    [] model = "sync"              -> body \in {"complete", "bare"} \union Reasons
    [] OTHER                       -> TRUE

(* _DIRECT_NOTIFICATION_SYNC_ERROR_MAP, with its default.                  *)
SyncError(reason) ==
  CASE reason = "chat_not_found"                 -> "ChatNotFoundError"
    [] reason = "bot_is_not_a_chat_member"       -> "BotIsNotChatMemberError"
    [] reason = "event_recipients_list_is_empty" -> "FinalRecipientsListEmptyError"
    [] reason = "stealth_mode_disabled"          -> "StealthModeDisabledError"
    [] OTHER                                     -> "InvalidBotXResponsePayloadError"

(* _verify_and_extract_api_model, and what execute and to_domain still do  *)
(* with a model that validated.  Only JSONDecodeError and ValidationError  *)
(* are converted: json.loads raises UnicodeDecodeError for bytes that are  *)
(* not text.                                                               *)
Conclusion(model, body) ==
  CASE body = "undecodable"                      -> "UnicodeDecodeError"
    [] body # "undecodable" /\ ~Validates(model, body) ->
         "InvalidBotXResponsePayloadError"
    [] model = "first" /\ body = "empty"         -> "UserNotFoundError"
    [] model = "pack" /\ body = "misordered"     -> "ValueError"
    [] model = "sync" /\ body = "bare"           -> "AssertionError"
    [] model = "sync" /\ body \in Reasons        -> SyncError(body)
    [] OTHER                                     -> "ok"

(* Exceptions of Python, pydantic or urllib3 that are no BaseClientError.  *)
Foreign == {"JSONDecodeError", "UnicodeDecodeError", "AttributeError",
            "AssertionError", "ValueError", "HTTPError", "OSError"}
=============================================================================
