------------------------------ MODULE SmartApps ------------------------------
(***************************************************************************)
(* What a bot that is a SmartApp exchanges besides messages: events with   *)
(* files, and the answers to synchronous events.  The files of one are     *)
(* converted to domain objects on their way in and back on their way out,  *)
(* and may come to the bot again.                                          *)
(*   pybotx/models/files.py, models/sync_smartapp_event.py                 *)
(*   pybotx/models/system_events/smartapp_event.py                         *)
(*   pybotx/client/smartapps_api/smartapp_event.py                         *)
(*   pybotx/client/files_api/upload_file.py                                *)
(* A file is its type and what its JSON may leave out; name, size, hash    *)
(* and the like are always there and copied.                               *)
(***************************************************************************)
EXTENDS Payloads

CONSTANTS
  FileLists,  \* what the server first hands out: sequences of files' JSON
  Objects     \* objects the caller may give as data, options or error data

(* The JSON of a file is an object of scalars; what is in the caller's     *)
(* objects is copied, to a depth that is the model's.                      *)
ASSUME SmartAppsAssumption ==
  /\ \A jsons \in FileLists :
       /\ IsSequence(jsons)
       /\ \A i \in DOMAIN jsons :
            /\ jsons[i].is = "dict"
            /\ \A f \in DOMAIN jsons[i].of : jsons[i].of[f].is = "leaf"
  /\ \A object \in Objects : IsJson5(object)

None == Leaf("None")

OptionalFields == {"file_preview", "file_preview_height", "file_preview_width",
                   "file_encryption_algo", "chunk_size", "caption"}

Timed == {"video", "voice"}

FileTypes == Timed \union {"image", "document"}

Nothing == [is |-> "nothing"]

VARIABLES
  received,  \* the files first received, as domain objects (history)
  held,      \* the files the bot holds, as domain objects
  refused,   \* did the bot refuse files it had sent itself? (history)
  asked,     \* arguments of the bot's last event or answer (history)
  wire       \* the JSON of it

appVars == <<received, held, refused, asked, wire>>

AppInit ==
  /\ received = Nothing
  /\ held = <<>>
  /\ refused = FALSE
  /\ asked = Nothing
  /\ wire = Nothing

-----------------------------------------------------------------------------
Field(json, f) == IF f \in DOMAIN json.of THEN json.of[f] ELSE Undefined

(* APIAsyncFile: a class for each type, two of which ask for a duration.   *)
IsApiFile(json) ==
  \E type \in FileTypes :
    /\ Field(json, "type") = Leaf(type)
    /\ type \in Timed => Field(json, "duration") \notin {Undefined, None}

ToOptional(value) == IF value = Undefined THEN None ELSE value

(* Deliberate error: `value or Undefined`.                                 *)
ToMissingIfFalse(value) ==
  IF value \in {None, Leaf("zero")} THEN Undefined ELSE value

ToMissing(value) == IF value = None THEN Undefined ELSE value

(* convert_async_file_to_domain                                            *)
AsyncFileToDomain(json) ==
  [type |-> json.of.type.of,
   duration |-> IF json.of.type.of \in Timed THEN json.of.duration ELSE None,
   optional |-> [f \in OptionalFields |-> ToOptional(Field(json, f))]]

(* convert_async_file_from_domain                                          *)
AsyncFileFromDomain(file) ==
  LET timed == IF file.type \in Timed THEN {"duration"} ELSE {}
  IN Dict([f \in OptionalFields \union {"type"} \union timed |->
             CASE f = "type" -> Leaf(file.type)
               [] f = "duration" -> file.duration
               [] OTHER -> ToMissing(file.optional[f])])

ApiFiles(files) == List([i \in DOMAIN files |-> AsyncFileFromDomain(files[i])])

(* The files of an event or of the answer to upload_file: all of them      *)
(* validate, or the whole is refused.                                      *)
Acceptable(jsons) == \A i \in DOMAIN jsons : IsApiFile(jsons[i])

DomainFiles(jsons) == [i \in DOMAIN jsons |-> AsyncFileToDomain(jsons[i])]

ReceiveFiles ==
  /\ received = Nothing
  /\ \E jsons \in FileLists :
       /\ Acceptable(jsons)
       /\ received' = List(DomainFiles(jsons))
       /\ held' = DomainFiles(jsons)
  /\ UNCHANGED <<refused, asked, wire>>

(* What the bot sent comes to it again, through BotX or another bot.       *)
ReceiveOwnFiles ==
  /\ wire # Nothing
  /\ Field(wire, "files") # Undefined
  /\ ~Empty(wire.of.files)
  /\ LET jsons == wire.of.files.of IN
       /\ held' = IF Acceptable(jsons) THEN DomainFiles(jsons) ELSE held
       /\ refused' = (refused \/ ~Acceptable(jsons))
  /\ UNCHANGED <<received, asked, wire>>

-----------------------------------------------------------------------------
(* No list, or the files the bot holds.                                    *)
FilesGiven == {Undefined, List(held)}

(* No list of files and an empty one are the same.                         *)
Converted(files) == IF files = Undefined THEN List(<<>>) ELSE ApiFiles(files.of)

(* send_smartapp_event.  An empty list of files is left out, and `opts`,   *)
(* alone of all, is put back after the cleaning (async_files has the name  *)
(* it has in an answer).                                                   *)
SendSmartAppEvent ==
  /\ \E ref \in {Undefined, None}, opts \in {Undefined} \union Objects,
        data \in Objects, files \in FilesGiven :
       LET json == RemoveUndefined(
             Dict([ref |-> ref, opts |-> opts, data |-> data,
                   files |-> IF Empty(Converted(files)) THEN Undefined
                             ELSE Converted(files)]))
       IN /\ asked' = [is |-> "event", ref |-> ref, opts |-> opts, data |-> data,
                       files |-> files]
          /\ wire' = Dict([f \in DOMAIN json.of \union {"opts"} |->
                             IF f \in DOMAIN json.of THEN json.of[f] ELSE Dict(<<>>)])
  /\ UNCHANGED <<received, held, refused>>

(* BotAPISyncSmartAppEventResultResponse: the files are always a list.     *)
AnswerWithResult ==
  /\ \E data \in Objects, files \in FilesGiven :
       /\ asked' = [is |-> "result", data |-> data, files |-> files]
       /\ wire' = RemoveUndefined(Dict([data |-> data, files |-> Converted(files)]))
  /\ UNCHANGED <<received, held, refused>>

OrDefault(value, default) == IF value = Undefined THEN default ELSE value

(* BotAPISyncSmartAppEventErrorResponse                                    *)
AnswerWithError ==
  /\ \E errorData \in {Undefined} \union Objects, errors \in {Undefined, List(<<>>)} :
       /\ asked' = [is |-> "error", errors |-> errors, error_data |-> errorData,
                    files |-> Undefined]
       /\ wire' = RemoveUndefined(
                    Dict([reason |-> Leaf("smartapp_error"),
                          errors |-> OrDefault(errors, List(<<>>)),
                          error_data |-> OrDefault(errorData, Dict(<<>>))]))
  /\ UNCHANGED <<received, held, refused>>

AppNext ==
  \/ ReceiveFiles
  \/ ReceiveOwnFiles
  \/ SendSmartAppEvent
  \/ AnswerWithResult
  \/ AnswerWithError

AppSpec == AppInit /\ [][AppNext]_appVars

-----------------------------------------------------------------------------
(* The files a bot holds are the ones it first received, all and in order, *)
(* however often they were sent on and came back: no type, duration or     *)
(* caption is lost between the two conversions, an empty or zero one is    *)
(* not a missing one, and no bot refuses what a bot has sent.              *)
FilesSurvive ==
  /\ received # Nothing => held = received.of
  /\ ~refused

(* Parts no event and no answer goes without.                              *)
Required ==
  [event |-> {"opts", "data"},
   result |-> {"data", "files"},
   error |-> {"reason", "errors", "error_data"}]

(* What must be there for BotX and the client of the SmartApp is there:    *)
(* every argument as the caller gave it, empty ones too, every file, `opts`*)
(* in every event, `files` in every result, and all parts of an error.     *)
SentWhole ==
  asked # Nothing =>
    /\ IsJson(wire)
    /\ Required[asked.is] \subseteq DOMAIN wire.of
    /\ \A f \in DOMAIN asked \ {"is", "files"} :
         asked[f] # Undefined => Field(wire, f) = asked[f]
    /\ asked.files # Undefined /\ ~Empty(asked.files) =>
         DOMAIN wire.of.files.of = DOMAIN asked.files.of
=============================================================================
