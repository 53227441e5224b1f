--------------------------- MODULE IncomingMessage ---------------------------
(***************************************************************************)
(* From the JSON of a command to the domain object handed to a use case:   *)
(* a message or one of the system events.                                  *)
(*   pybotx/models/base_command.py, models/commands.py                     *)
(*   pybotx/models/message/incoming_message.py   a message: lenient        *)
(*   pybotx/models/system_events/*.py            the events; an edited     *)
(*                                               message is read strictly  *)
(*   pybotx/models/attachments.py, models/message/mentions.py, enums.py    *)
(*   pybotx/logger.py                            the line written before   *)
(* What is converted is abstracted to where it came from: the domain       *)
(* object holds positions in the command's lists.                          *)
(***************************************************************************)
EXTENDS Integers, Sequences

CONSTANTS Commands  \* the commands that may come

FileTypes == {"image", "video", "document", "voice"}

AttachmentTypes == FileTypes \union {"location", "contact", "link", "sticker"}

MentionKinds == {"user", "chat", "contact", "channel", "all"}

(* An item of either list is no JSON object ("other"), an object that      *)
(* validates as none of the known types ("dict"), or one of them.  content *)
(* is a data URL: whole, without its MIME type, without its comma, of      *)
(* wrong base64 padding, or the empty string; data: is there a data object *)
(* that would hold it?                                                     *)
Shapes == {"other", "dict", "typed"}

Contents == {"whole", "untyped", "bare", "corrupt", "empty"}

Attachments ==
  [is : Shapes, type : AttachmentTypes, content : Contents, data : BOOLEAN]

(* data: does the mention say whom it mentions?  An entity that is a       *)
(* mention holds one, a reply those of the message it quotes.              *)
Mentions == [kind : MentionKinds, data : BOOLEAN]

Entities ==
  [is : Shapes, type : {"mention", "forward", "reply"}, mentions : Seq(Mentions)]

(* The union BotAPISystemEvent, in the order its members are tried.        *)
SystemEvents ==
  <<"smartapp_event", "internal_bot_notification", "chat_created",
    "chat_deleted_by_user", "added_to_chat", "deleted_from_chat",
    "left_from_chat", "cts_login", "cts_logout", "event_deleted", "event_edit",
    "user_joined_to_chat", "conference_changed", "conference_created",
    "conference_deleted">>

(* Commands whose `from` has a chat_type: any string will do there.        *)
WithChatType ==
  {"message", "smartapp_event", "internal_bot_notification", "chat_created",
   "added_to_chat", "deleted_from_chat", "left_from_chat", "user_joined_to_chat"}

Places == {"chat_type", "platform", "file_type", "created_type", "user_kind",
           "link_type"}

(* Deliberate error: an APIChatTypes there, as for all the other enums.    *)
StrictlyReadToo(kind) == Places

(* Where a command of this kind must hold a value its enum has.            *)
StrictlyRead(kind) ==
  CASE kind = "message"            -> {"platform"}
    [] kind = "smartapp_event"     -> {"platform", "file_type"}
    [] kind = "chat_created"       -> {"created_type", "user_kind"}
    [] kind = "conference_changed" -> {"link_type"}
    [] OTHER                       -> {}

(* novel: the places that hold a value to come.                            *)
CommandTypes ==
  [kind : {"message", "unknown"} \union {SystemEvents[i] : i \in DOMAIN SystemEvents},
   version : {"supported", "other"}, novel : SUBSET Places,
   attachments : Seq(Attachments), entities : Seq(Entities)]

ASSUME CommandsAssumption == Commands \subseteq CommandTypes

VARIABLES
  command,    \* the command being converted
  logsDebug,  \* is the DEBUG level on?  loguru starts that way
  stage,      \* what is done, or has failed: "parsing", "attachments", "entities"
  next,       \* the next entity of the loop in to_domain
  message,    \* the domain object under construction
  outcome     \* "pending", "ok", or the exception raised

vars == <<command, logsDebug, stage, next, message, outcome>>

Blank == [chat |-> "none", attachments |-> {}, mentions |-> <<>>, forward |-> 0,
          reply |-> 0, entities |-> <<>>]

Init ==
  /\ command \in Commands
  /\ logsDebug \in BOOLEAN
  /\ stage = "parsing"
  /\ next = 1
  /\ message = Blank
  /\ outcome = "pending"

-----------------------------------------------------------------------------
At(place) == outcome = "pending" /\ stage = place

Fail(exception) ==
  /\ outcome' = exception
  /\ UNCHANGED <<stage, next, message>>

Typed(item) == item.is = "typed"

(* decode_rfc2397 accepts an empty string; the extension of a voice        *)
(* recording is cut from the text between "/" and ";", empty or not.       *)
ContentError(attachment) ==
  CASE attachment.type \notin FileTypes  -> "none"
    [] attachment.type \in FileTypes /\ attachment.content = "bare" -> "IndexError"
    [] attachment.type \in FileTypes /\ attachment.content = "corrupt" -> "binascii.Error"
    [] attachment.type = "voice" /\ attachment.content \in {"empty", "untyped"} ->
         "IndexError"
    [] OTHER -> "none"

(* An empty mention_data becomes None, of which every kind but "all" then  *)
(* reads entity_id.                                                        *)
MentionError(mention) ==
  IF mention.kind # "all" /\ ~mention.data THEN "AttributeError" ELSE "none"

EntityError(entity) ==
  IF \E i \in DOMAIN entity.mentions : MentionError(entity.mentions[i]) # "none"
  THEN "AttributeError"
  ELSE "none"

(* trim_file_data_in_incoming_json takes the first attachment to be an     *)
(* object with a data object, before anything is validated.                *)
LogError ==
  CASE ~logsDebug \/ command.attachments = <<>>          -> "none"
    [] OTHER -> CASE command.attachments[1].is = "other" -> "TypeError"
                  [] command.attachments[1].is # "other" ->
                       IF command.attachments[1].data THEN "none" ELSE "KeyError"

-----------------------------------------------------------------------------
Strict == command.kind = "event_edit"

AllTyped(items) == \A i \in DOMAIN items : Typed(items[i])

(* Members of the union whose payload is no BotAPIBaseSystemEventPayload.  *)
WithoutEventCheck == {"smartapp_event", "deleted_from_chat"}

(* Does the command, of a supported version, validate as this class?  The  *)
(* lists of a message drop what is no object and keep what does not        *)
(* validate; those of an edited message admit known types only.            *)
Validates(class) ==
  /\ class = command.kind
  /\ command.novel \intersect StrictlyRead(class) = {}
  /\ class = "event_edit" => AllTyped(command.attachments) /\ AllTyped(command.entities)

(* Deliberate error: the event is looked up only once all the rest is      *)
(* valid, the Literal of the class included (mode="after").                *)
ClassErrorLate(class) ==
  CASE command.version # "supported" -> "UnsupportedBotAPIVersionError"
    [] command.version = "supported" /\ Validates(class) -> "none"
    [] OTHER -> "ValidationError"

(* What validating the command as this class raises: the validators of     *)
(* proto_version and of body run before the checks of their types, and     *)
(* raise exceptions pydantic does not collect.                             *)
ClassError(class) ==
  CASE command.version # "supported" -> "UnsupportedBotAPIVersionError"
    [] /\ command.version = "supported"
       /\ command.kind = "unknown"
       /\ class \notin WithoutEventCheck -> "UnknownSystemEventError"
    [] /\ command.version = "supported"
       /\ command.kind # "unknown" \/ class \in WithoutEventCheck ->
         IF Validates(class) THEN "none" ELSE "ValidationError"

Classes == IF command.kind = "message" THEN <<"message">> ELSE SystemEvents

(* The classes are tried in turn: the first that validates, or raises      *)
(* anything but a ValidationError, decides.                                *)
Decides(i) ==
  /\ \A j \in 1..(i - 1) : ClassError(Classes[j]) = "ValidationError"
  /\ ClassError(Classes[i]) = "ValidationError" => i = Len(Classes)

(* _parse_command: the log line, then (verification is the subject of      *)
(* Webhook) the validation.                                                *)
ParseCommand ==
  /\ At("parsing")
  /\ \/ LogError # "none" /\ Fail(LogError)
     \/ /\ LogError = "none"
        /\ \E i \in DOMAIN Classes :
             /\ Decides(i)
             /\ \/ /\ ClassError(Classes[i]) # "none"
                   /\ Fail(ClassError(Classes[i]))
                \/ /\ ClassError(Classes[i]) = "none"
                   /\ stage' = "attachments"
                   /\ UNCHANGED <<next, message, outcome>>
  /\ UNCHANGED <<command, logsDebug>>

-----------------------------------------------------------------------------
(* convert_chat_type_to_domain, for the events that have a chat.           *)
ChatOf ==
  CASE command.kind \notin WithChatType -> "none"
    [] command.kind \in WithChatType \ {"chat_created"} /\ "chat_type" \in command.novel ->
         "UNSUPPORTED"
    [] OTHER -> "known"

(* validate_items: what is no object is dropped, what does not validate is *)
(* kept as it is.                                                          *)
Kept == {i \in DOMAIN command.attachments : command.attachments[i].is # "other"}

(* Deliberate errors: every attachment of a message, the first of an edit. *)
ToConvertAll == {i \in Kept : Typed(command.attachments[i])}

ToConvertFirst ==
  {i \in Kept : Typed(command.attachments[i]) /\ \A j \in Kept : i <= j}

(* "Always one attachment per-message": the first kept; an edited message  *)
(* has all of them.                                                        *)
ToConvert ==
  {i \in Kept : Typed(command.attachments[i]) /\ (Strict \/ \A j \in Kept : i <= j)}

ConvertAttachments ==
  /\ At("attachments")
  /\ LET failing == {i \in ToConvert : ContentError(command.attachments[i]) # "none"} IN
       \/ \E i \in failing :
            /\ \A j \in failing : i <= j
            /\ Fail(ContentError(command.attachments[i]))
       \/ /\ failing = {}
          /\ message' = [message EXCEPT !.chat = ChatOf, !.attachments = ToConvert]
          /\ stage' = "entities"
          /\ UNCHANGED <<next, outcome>>
  /\ UNCHANGED <<command, logsDebug>>

(* What the loop does with the entity at position next.                    *)
WithEntity(entity) ==
  CASE Strict                     -> [message EXCEPT !.entities = Append(@, next)]
    [] ~Strict /\ ~Typed(entity)  -> message
    [] ~Strict /\ Typed(entity)   ->
         CASE entity.type = "mention" -> [message EXCEPT !.mentions = Append(@, next)]
           [] entity.type = "forward" -> [message EXCEPT !.forward = next]
           [] entity.type = "reply"   -> [message EXCEPT !.reply = next]

(* Deliberate error: the loop stops at what it does not know.              *)
ConvertEntityOrStop ==
  /\ At("entities")
  /\ next \in DOMAIN command.entities
  /\ LET entity == command.entities[next] IN
       \/ /\ Typed(entity) /\ EntityError(entity) # "none"
          /\ Fail(EntityError(entity))
       \/ /\ ~(Typed(entity) /\ EntityError(entity) # "none")
          /\ message' = WithEntity(entity)
          /\ next' = IF Typed(entity) THEN next + 1 ELSE Len(command.entities) + 1
          /\ UNCHANGED <<stage, outcome>>
  /\ UNCHANGED <<command, logsDebug>>

ConvertEntity ==
  /\ At("entities")
  /\ next \in DOMAIN command.entities
  /\ LET entity == command.entities[next] IN
       \/ /\ Typed(entity) /\ EntityError(entity) # "none"
          /\ Fail(EntityError(entity))
       \/ /\ ~(Typed(entity) /\ EntityError(entity) # "none")
          /\ message' = WithEntity(entity)
          /\ next' = next + 1
          /\ UNCHANGED <<stage, outcome>>
  /\ UNCHANGED <<command, logsDebug>>

Return ==
  /\ At("entities")
  /\ next > Len(command.entities)
  /\ outcome' = "ok"
  /\ UNCHANGED <<command, logsDebug, stage, next, message>>

Next == ParseCommand \/ ConvertAttachments \/ ConvertEntity \/ Return

Spec == Init /\ [][Next]_vars
-----------------------------------------------------------------------------
IsEntity(i, type) ==
  /\ i \in DOMAIN command.entities
  /\ Typed(command.entities[i])
  /\ command.entities[i].type = type

(* positions lists, in order, the entities of a type.                      *)
AllInOrder(positions, type) ==
  /\ \A k \in DOMAIN positions : IsEntity(positions[k], type)
  /\ \A i \in DOMAIN command.entities : IsEntity(i, type) =>
       \E k \in DOMAIN positions : positions[k] = i
  /\ \A k, l \in DOMAIN positions : k < l => positions[k] < positions[l]

IsLast(position, type) ==
  /\ position = 0 \/ IsEntity(position, type)
  /\ \A i \in DOMAIN command.entities : IsEntity(i, type) => i <= position

(* A use case sees every mention in the order of the message, the last     *)
(* forward, the last reply and the first attachment, whatever stands       *)
(* between and before them, and nothing the library does not know.         *)
MessageIsFaithful ==
  outcome = "ok" /\ command.kind = "message" =>
    /\ AllInOrder(message.mentions, "mention")
    /\ IsLast(message.forward, "forward")
    /\ IsLast(message.reply, "reply")
    /\ \A i \in DOMAIN command.attachments :
         i \in message.attachments <=>
           /\ Typed(command.attachments[i])
           /\ \A j \in 1..(i - 1) : command.attachments[j].is = "other"

(* An edited message is handed over whole or not at all.                   *)
EditIsWhole ==
  outcome = "ok" /\ Strict =>
    /\ message.attachments = DOMAIN command.attachments
    /\ message.entities = [i \in DOMAIN command.entities |-> i]

(* What is new to the library costs no message: neither a new type of chat *)
(* nor an item of a new type fails its validation or its conversion, which *)
(* fail only for a new platform, an entity of a known type, or the first   *)
(* attachment.                                                             *)
UnknownIsTolerated ==
  command.kind = "message" /\ command.version = "supported" =>
    /\ outcome = "ValidationError" => "platform" \in command.novel
    /\ stage # "parsing" /\ outcome \notin {"pending", "ok"} =>
         \/ \E i \in DOMAIN command.entities :
              Typed(command.entities[i]) /\ EntityError(command.entities[i]) # "none"
         \/ \E i \in DOMAIN command.attachments :
              /\ Typed(command.attachments[i])
              /\ ContentError(command.attachments[i]) # "none"
              /\ \A j \in 1..(i - 1) : command.attachments[j].is = "other"

(* A command that is refused is refused for what it is: one of another     *)
(* version of the API as that, an event to come as that, whatever else is  *)
(* new in it and in whichever order the classes are tried; and an event    *)
(* the library knows is never taken for an unknown one.                    *)
RefusalTellsWhy ==
  stage = "parsing" /\ outcome # "pending" /\ LogError = "none" =>
    /\ outcome = "UnsupportedBotAPIVersionError" <=> command.version # "supported"
    /\ outcome = "UnknownSystemEventError" <=>
         command.version = "supported" /\ command.kind = "unknown"

(* "Mention data can be an empty dict": it is no reason to fail.           *)
EmptyMentionDataAccepted == outcome # "AttributeError"

(* A message in which only items are new reaches its conversion: "The      *)
(* non-dict item will not be processed and not added to the result list".  *)
MessageReachesConversion ==
  /\ command.kind = "message"
  /\ command.version = "supported"
  /\ command.novel = {}
  /\ stage = "parsing"
  => outcome = "pending"
=============================================================================
