----------------------------- MODULE MCBotXCall -----------------------------
EXTENDS BotXCall, ApiMethods

CONSTANTS t1, t2

(* Every status some handler knows, one nobody does, and two successes.    *)
Statuses == {200, 204, 400, 401, 403, 404, 409, 422, 429, 500, 503}

EveryAnswer == [status : Statuses, body : Bodies]

(* For the interleavings: a POST, a retried verb and a stream; a success,  *)
(* a refusal every method knows, a request to wait and an unread model.    *)
FewMethods == {DirectNotificationMethod, DeleteStickerMethod, DownloadFileMethod}

FewAnswers ==
  {[status |-> 200, body |-> "complete"], [status |-> 401, body |-> "bare"],
   [status |-> 503, body |-> "garbage"], [status |-> 200, body |-> "garbage"]}

=============================================================================
