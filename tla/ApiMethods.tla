----------------------------- MODULE ApiMethods -----------------------------
(***************************************************************************)
(* The API methods of pybotx/client/*_api/, one definition per class: the  *)
(* verb, the statuses its handlers know and the kind of its response       *)
(* model.  What a payload carries and how a result is converted is left    *)
(* out; what can go wrong between the answer and the caller is kept.       *)
(***************************************************************************)
EXTENDS Answers, TLC

(* AuthorizedBotXMethod.status_handlers, which every class that has its    *)
(* own handlers spreads into them.                                         *)
Authorized == 401 :> Raises("InvalidBotAccountError")

NoHandlers == <<>>

Call(verb, handlers, model) ==
  [verb |-> verb, stream |-> FALSE, handlers |-> handlers @@ Authorized,
   model |-> model]

(* _botx_method_stream: the body goes to a buffer, no model is read.       *)
Stream(handlers) ==
  [verb |-> "GET", stream |-> TRUE, handlers |-> handlers @@ Authorized,
   model |-> "file"]

PermissionOrChat ==
  403 :> Raises("PermissionDeniedError") @@ 404 :> Raises("ChatNotFoundError")

NoChat == 404 :> Raises("ChatNotFoundError")

NoSticker == 404 :> Raises("StickerPackOrStickerNotFoundError")

NoUser == 404 :> Raises("UserNotFoundError")

-----------------------------------------------------------------------------
\* bots_api
BotsListMethod == Call("GET", NoHandlers, "object")
(* Not authorised, but with the same single handler.                       *)
GetTokenMethod == Call("GET", NoHandlers, "object")

\* chats_api
(* Deliberate error: the class's handlers without the spread.              *)
AddAdminUnauthorized ==
  [verb |-> "POST", stream |-> FALSE, handlers |-> PermissionOrChat,
   model |-> "status"]

AddAdminMethod ==
  Call("POST",
       PermissionOrChat @@
       400 :> ByReason(
         "chat_members_not_modifiable" :> "CantUpdatePersonalChatError" @@
         "admins_not_changed" :> "InvalidUsersListError",
         "InvalidBotXStatusCodeError", "InvalidBotXStatusCodeError"),
       "status")
AddUserMethod == Call("POST", PermissionOrChat, "status")
ChatInfoMethod == Call("GET", NoChat, "object")
CreateChatMethod ==
  Call("POST", 403 :> Raises("ChatCreationProhibitedError") @@
               422 :> Raises("ChatCreationError"), "object")
CreateChatLinkMethod ==
  Call("POST",
       NoChat @@
       403 :> Raises("ChatLinkCreationProhibitedError") @@
       500 :> ByReason("error_from_messaging_service" :> "ChatLinkCreationError",
                       "InvalidBotXStatusCodeError", "InvalidBotXStatusCodeError"),
       "object")
CreateThreadMethod ==
  Call("POST",
       403 :> Raises("ThreadCreationProhibitedError") @@
       404 :> Raises("EventNotFoundError") @@
       409 :> ByReason("thread_already_created" :> "ThreadAlreadyExistsError",
                       "ThreadCreationError", "ThreadCreationError"),
       "object")
DisableStealthMethod == Call("POST", PermissionOrChat, "status")
ListChatsMethod == Call("GET", NoHandlers, "list")
PersonalChatMethod == Call("GET", NoChat, "object")
PinMessageMethod == Call("POST", PermissionOrChat, "status")
RemoveUserMethod == Call("POST", PermissionOrChat, "status")
SetStealthMethod == Call("POST", PermissionOrChat, "status")
UnpinMessageMethod == Call("POST", PermissionOrChat, "status")

\* events_api
DeleteEventMethod == Call("POST", 404 :> Raises("MessageNotFoundError"), "object")
EditEventMethod == Call("POST", NoHandlers, "status")
MessageStatusMethod == Call("GET", 404 :> Raises("EventNotFoundError"), "object")
ReplyEventMethod == Call("POST", NoHandlers, "status")
StopTypingEventMethod == Call("POST", NoHandlers, "status")
TypingEventMethod == Call("POST", NoHandlers, "status")

\* files_api
DownloadFileMethod ==
  Stream(204 :> Raises("FileDeletedError") @@
         404 :> ByReason("file_metadata_not_found" :> "FileMetadataNotFound" @@
                         "chat_not_found" :> "ChatNotFoundError",
                         "InvalidBotXStatusCodeError",
                         "InvalidBotXStatusCodeError"))
UploadFileMethod == Call("POST", NoChat, "object")

\* mertics_api
CollectBotFunctionMethod == Call("POST", NoHandlers, "object")

\* notifications_api
DirectNotificationMethod == Call("POST", NoHandlers, "object")
DirectNotificationSyncMethod == Call("POST", NoHandlers, "sync")
InternalBotNotificationMethod ==
  Call("POST", 429 :> Raises("RateLimitReachedError"), "object")

\* openid_api
RefreshAccessTokenMethod == Call("POST", NoHandlers, "object")

\* smartapps_api
SmartAppCustomNotificationMethod == Call("POST", NoHandlers, "object")
SmartAppEventMethod == Call("POST", NoHandlers, "status")
SmartAppManifestMethod == Call("POST", NoHandlers, "object")
SmartAppNotificationMethod == Call("POST", NoHandlers, "status")
SmartAppUnreadCounterMethod == Call("POST", NoHandlers, "object")
SmartAppsListMethod == Call("GET", NoHandlers, "object")
SmartAppUploadFileMethod ==
  Call("POST", 400 :> Raises("FileTypeNotAllowed"), "object")

\* stickers_api
(* error_data is read before it is known to be there.                      *)
AddStickerMethod ==
  Call("POST",
       400 :> ByReason("pack_not_found" :> "StickerPackOrStickerNotFoundError" @@
                       "emoji_invalid" :> "InvalidEmojiError" @@
                       "image_invalid" :> "InvalidImageError",
                       "InvalidBotXStatusCodeError", "AttributeError"),
       "object")
CreateStickerPackMethod == Call("POST", NoHandlers, "object")
DeleteStickerMethod == Call("DELETE", NoSticker, "status")
DeleteStickerPackMethod == Call("DELETE", NoSticker, "status")
EditStickerPackMethod == Call("PUT", NoSticker, "pack")
GetStickerMethod == Call("GET", NoSticker, "object")
GetStickerPackMethod == Call("GET", NoSticker, "pack")
GetStickerPacksMethod == Call("GET", NoHandlers, "object")

\* users_api
SearchUserByEmailMethod == Call("GET", NoUser, "object")
SearchUserByEmailPostMethod == Call("POST", NoUser, "first")
SearchUserByEmailsMethod == Call("POST", NoHandlers, "list")
SearchUserByHUIDMethod == Call("GET", NoUser, "object")
SearchUserByLoginMethod == Call("GET", NoUser, "object")
SearchUserByOtherIdMethod == Call("GET", NoUser, "object")
UpdateUsersProfileMethod ==
  Call("PUT", NoUser @@ 400 :> Raises("InvalidProfileDataError") @@
              503 :> Raises("UserProfileUpdateUnavailableError"), "object")
UsersAsCSVMethod == Stream(400 :> Raises("NoUserKindSelectedError"))

\* voex_api
GetCallMethod == Call("GET", 404 :> Raises("CallNotFoundError"), "object")
GetConferenceMethod ==
  Call("GET", 404 :> Raises("ConferenceNotFoundError"), "object")

-----------------------------------------------------------------------------
ApiMethods ==
  {BotsListMethod, AddAdminMethod, AddUserMethod, ChatInfoMethod,
   CreateChatMethod, CreateChatLinkMethod, CreateThreadMethod,
   DisableStealthMethod, ListChatsMethod, PersonalChatMethod, PinMessageMethod,
   RemoveUserMethod, SetStealthMethod, UnpinMessageMethod, DeleteEventMethod,
   EditEventMethod, MessageStatusMethod, ReplyEventMethod, StopTypingEventMethod,
   TypingEventMethod, DownloadFileMethod, UploadFileMethod,
   CollectBotFunctionMethod, DirectNotificationMethod,
   DirectNotificationSyncMethod, InternalBotNotificationMethod,
   RefreshAccessTokenMethod, SmartAppCustomNotificationMethod,
   SmartAppEventMethod, SmartAppManifestMethod, SmartAppNotificationMethod,
   SmartAppUnreadCounterMethod, SmartAppsListMethod, SmartAppUploadFileMethod,
   AddStickerMethod, CreateStickerPackMethod, DeleteStickerMethod,
   DeleteStickerPackMethod, EditStickerPackMethod, GetStickerMethod,
   GetStickerPackMethod, GetStickerPacksMethod, SearchUserByEmailMethod,
   SearchUserByEmailPostMethod, SearchUserByEmailsMethod, SearchUserByHUIDMethod,
   SearchUserByLoginMethod, SearchUserByOtherIdMethod, UpdateUsersProfileMethod,
   UsersAsCSVMethod, GetCallMethod, GetConferenceMethod}
=============================================================================
