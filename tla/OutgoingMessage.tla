--------------------------- MODULE OutgoingMessage ---------------------------
(***************************************************************************)
(* Threads of one bot send messages, reply, and edit what they have sent.  *)
(*   pybotx/client/client.py                   send_message, reply_message,*)
(*                                             edit_message                *)
(*   pybotx/client/notifications_api/direct_notification.py                *)
(*   pybotx/client/events_api/reply_event.py, edit_event.py                *)
(*   pybotx/models/message/markup.py                                       *)
(* A call turns its arguments into a payload, posts it, and BotX stores    *)
(* the message or the change, if need be after the caller has given up.    *)
(* The request itself is BotXCall's subject.                               *)
(***************************************************************************)
EXTENDS EmbedMentions

CONSTANTS
  Threads,
  Bodies,    \* the texts of a message
  Extras,    \* the other arguments: records of markup (rows of buttons),
             \* options, metadata and file
  MaxCalls   \* bound: calls ever made

IsRows(rows) == IsSequence(rows) /\ \A r \in DOMAIN rows : IsSequence(rows[r])

(* A text is as a bot writes it, without placeholders; a markup has rows   *)
(* of buttons; metadata and files are JSON already.                        *)
ASSUME OutgoingMessageAssumption ==
  /\ MaxCalls \in Nat
  /\ \A b \in Bodies :
       /\ IsSequence(b)
       /\ \A k \in DOMAIN b : b[k].is # "placeholder"
  /\ \A e \in Extras :
       /\ e.bubble # Undefined => e.bubble.is = "leaf" /\ IsRows(e.bubble.of)
       /\ e.metadata # Undefined => IsJson4(e.metadata)
       /\ e.file # Undefined => IsJson5(e.file)
       /\ e.option # Undefined => e.option.is = "leaf"

VARIABLES
  pc,        \* of a thread: "idle" or "posting"
  ask,       \* of a thread: the arguments of its call
  json,      \* of a thread: the request's JSON
  outcome,   \* of a thread: how its last call ended
  calls,     \* calls made so far
  messages,  \* what BotX keeps of each message
  late       \* the requests given up and still on their way to BotX

vars == <<pc, ask, json, outcome, calls, messages, late>>

Absent == Dict(<<>>)

NoAsk == [op |-> "none"]

Init ==
  /\ pc = [t \in Threads |-> "idle"]
  /\ ask = [t \in Threads |-> NoAsk]
  /\ json = [t \in Threads |-> Absent]
  /\ outcome = [t \in Threads |-> "none"]
  /\ calls = 0
  /\ messages = <<>>
  /\ late = {}

-----------------------------------------------------------------------------
(* api_button_from_domain: a link is opened by the client.                 *)
ApiButton(button) ==
  LET link == IF button.link THEN Leaf(TRUE) ELSE Undefined
      handler == IF button.client \/ button.link THEN Leaf("client") ELSE Undefined
      alert == IF button.alert THEN Leaf(TRUE) ELSE Undefined
  IN Dict([label |-> Leaf(button.label), data |-> Absent,
           opts |-> Dict([silent |-> Leaf(TRUE), link |-> link, handler |-> handler,
                          show_alert |-> alert])])

(* api_markup_from_domain, of bubbles and keyboard alike: a markup is true *)
(* even if it has no buttons.                                              *)
Markup(rows) ==
  IF rows = Undefined THEN Undefined
  ELSE List([r \in DOMAIN rows.of |->
               List([b \in DOMAIN rows.of[r] |-> ApiButton(rows.of[r][b])])])

(* The object that holds the text; every payload has one.                  *)
Content(a, body, mentions) ==
  Dict([body |-> body, metadata |-> a.extra.metadata, bubble |-> Markup(a.extra.bubble),
        mentions |-> mentions,
        opts |-> Dict([buttons_auto_adjust |-> a.extra.option])])

Replaced(a, call) == FindAndReplace(a.body.of, call)

(* BotXAPIDirectNotificationRequestPayload.from_domain                     *)
SendPayload(a, call) ==
  LET replaced == Replaced(a, call)
      mentions == IF replaced.mentions = <<>> THEN Undefined ELSE List(replaced.mentions)
      nested == Dict([send |-> a.extra.option, force_dnd |-> Undefined])
  IN Dict([content |-> Content(a, Leaf(replaced.body), mentions),
           file |-> a.extra.file,
           opts |-> Dict([stealth_mode |-> Undefined, notification_opts |-> nested])])

(* BotXAPIReplyEventRequestPayload.from_domain                             *)
ReplyPayload(a, call) ==
  LET sent == SendPayload(a, call)
  IN Dict([sent.of EXCEPT !.opts =
             Dict([stealth_mode |-> Undefined, raw_mentions |-> Leaf(TRUE),
                   notification_opts |-> @.of.notification_opts])])

(* Deliberate error: an edit leaves out an empty list of mentions, as a    *)
(* reply does.                                                             *)
EditPayloadAsReply(a, call) ==
  LET skipped == a.body = Undefined
      replaced == Replaced(a, call)
      none == skipped \/ replaced.mentions = <<>>
  IN Dict([content |->
             Content(a, IF skipped THEN Undefined ELSE Leaf(replaced.body),
                     IF none THEN Undefined ELSE List(replaced.mentions)),
           file |-> a.extra.file,
           opts |-> Dict([raw_mentions |-> IF none THEN Undefined ELSE Leaf(TRUE)])])

(* BotXAPIEditEventRequestPayload.from_domain: with a body go the mentions *)
(* of that body, none included, and no file is told from no change.        *)
EditPayload(a, call) ==
  LET skipped == a.body = Undefined
      replaced == Replaced(a, call)
      raw == ~skipped /\ replaced.mentions # <<>>
  IN Dict([content |->
             Content(a, IF skipped THEN Undefined ELSE Leaf(replaced.body),
                     IF skipped THEN Undefined ELSE List(replaced.mentions)),
           file |-> a.extra.file,
           opts |-> Dict([raw_mentions |-> IF raw THEN Leaf(TRUE) ELSE Undefined])])

Payload(a, call) ==
  CASE a.op = "send"  -> SendPayload(a, call)
    [] a.op = "reply" -> ReplyPayload(a, call)
    [] a.op = "edit"  -> EditPayload(a, call)

(* A text of over 4096 characters, refused by send_message alone.          *)
Long == [is |-> "long"]

(* What from_domain raises ValueError for.                                 *)
Unsendable(a) ==
  /\ a.body # Undefined
  /\ \/ a.op = "send" /\ \E k \in DOMAIN a.body.of : a.body.of[k] = Long
     \/ MentionsRaise(a.body.of)

-----------------------------------------------------------------------------
Asks ==
  LET Args(op, target, bodies) ==
        [call : {calls + 1}, op : {op}, target : target, body : bodies,
         extra : {e \in Extras : op = "edit" \/ e.file # Leaf("None")}]
      texts == {Leaf(b) : b \in Bodies}
  IN Args("send", {0}, texts)
       \union Args("reply", DOMAIN messages, texts)
       \union Args("edit", DOMAIN messages, texts \union {Undefined})

(* send_message, reply_message or edit_message up to its request.          *)
Compose(t) ==
  /\ pc[t] = "idle"
  /\ calls < MaxCalls
  /\ calls' = calls + 1
  /\ \E a \in Asks :
       /\ IF Unsendable(a)
            THEN /\ outcome' = [outcome EXCEPT ![t] = "ValueError"]
                 /\ UNCHANGED <<pc, ask, json>>
            ELSE /\ pc' = [pc EXCEPT ![t] = "posting"]
                 /\ ask' = [ask EXCEPT ![t] = a]
                 /\ json' = [json EXCEPT ![t] = RemoveUndefined(Payload(a, calls + 1))]
                 /\ outcome' = [outcome EXCEPT ![t] = "none"]
  /\ UNCHANGED <<messages, late>>

(* External: BotX keeps what a message was sent with, and of an edit what  *)
(* it brings.  A payload whose every field was cleaned away brings none.   *)
Fields == {"body", "metadata", "bubble", "mentions", "file"}

Brought(j, f) ==
  LET holder == IF f = "file" \/ "content" \notin DOMAIN j.of THEN j.of ELSE j.of.content.of
  IN IF f \in DOMAIN holder THEN holder[f] ELSE Undefined

Stored(j, old) ==
  [f \in Fields |-> IF Brought(j, f) = Undefined THEN old[f] ELSE Brought(j, f)]

Blank == [f \in Fields |-> Undefined]

(* The call ends; its arguments and payload are gone.                      *)
Finish(t, how) ==
  /\ pc[t] = "posting"
  /\ pc' = [pc EXCEPT ![t] = "idle"]
  /\ ask' = [ask EXCEPT ![t] = NoAsk]
  /\ json' = [json EXCEPT ![t] = Absent]
  /\ outcome' = [outcome EXCEPT ![t] = how]
  /\ UNCHANGED calls

(* External: BotX stores the message or the change.                        *)
Store(a, j) ==
  messages' = IF a.op = "edit" THEN [messages EXCEPT ![a.target] = Stored(j, @)]
              ELSE Append(messages, Stored(j, Blank))

(* BotX takes the request, in any order with those of other threads.       *)
Post(t) ==
  /\ Finish(t, "ok")
  /\ Store(ask[t], json[t])
  /\ UNCHANGED late

(* BotX refuses it: a status handler raises, nothing is stored.            *)
Refuse(t) ==
  /\ Finish(t, "error")
  /\ UNCHANGED <<messages, late>>

(* The wait times out or the answer is lost, and the call raises.          *)
GiveUp(t) ==
  /\ Finish(t, "error")
  /\ late' = late \union {[ask |-> ask[t], json |-> json[t]]}
  /\ UNCHANGED messages

(* External: BotX takes such a request, at any time after.                 *)
PostLate ==
  \E r \in late :
    /\ Store(r.ask, r.json)
    /\ late' = late \ {r}
    /\ UNCHANGED <<pc, ask, json, outcome, calls>>

Next == PostLate \/ \E t \in Threads : Compose(t) \/ Post(t) \/ Refuse(t) \/ GiveUp(t)

Spec == Init /\ [][Next]_vars

-----------------------------------------------------------------------------
Mentioned(message) == IF message.mentions = Undefined THEN <<>> ELSE message.mentions.of

PlaceholderIds(message) ==
  LET placeholders ==
        Picked(message.body.of,
               {k \in DOMAIN message.body.of : message.body.of[k].is = "placeholder"})
  IN [k \in DOMAIN placeholders |-> placeholders[k].id]

(* Whatever sends and edits came before, and in whatever order BotX took   *)
(* them, the mentions kept with a message are those its text shows, in the *)
(* order of the text: no placeholder dangles, none is resolved to a        *)
(* mention of an earlier text, no mention outlives its place.  It rests on *)
(* every edit bringing text and mentions together or neither.              *)
(* (edit_event.py:65-82)                                                   *)
MentionsMatchText ==
  \A m \in DOMAIN messages :
    LET mentions == Mentioned(messages[m])
    IN PlaceholderIds(messages[m])
         = [k \in DOMAIN mentions |-> mentions[k].of.mention_id.of]

(* A fragment of the text as its reader sees it, given the mentions.       *)
Shows(kept, meant, mentions) ==
  IF ~IsTag(meant) THEN kept = meant
  ELSE \E n \in DOMAIN mentions :
         LET mention == mentions[n].of
         IN /\ kept = Placeholder(Sigil(meant.type), mention.mention_id.of)
            /\ mention.mention_type = Leaf(meant.type)
            /\ meant.type # "ALL" =>
                 /\ mention.mention_data.of[EntityKey(meant.type)] = Leaf(meant.entity)
                 /\ ("name" \in DOMAIN mention.mention_data.of) = (meant.name # "")

Reads(message, text) ==
  /\ Len(message.body.of) = Len(text)
  /\ \A k \in DOMAIN text : Shows(message.body.of[k], text[k], Mentioned(message))

Labels(markup) ==
  [r \in DOMAIN markup.of |->
     [b \in DOMAIN markup.of[r].of |-> markup.of[r].of[b].of.label.of]]

Wanted(rows) ==
  [r \in DOMAIN rows.of |-> [b \in DOMAIN rows.of[r] |-> rows.of[r][b].label]]

UnderWay == {ask[t] : t \in Threads} \union {r.ask : r \in late}

Taken(a) ==
  \/ \E t \in Threads :
       a = ask[t] /\ pc[t] = "posting" /\ pc'[t] = "idle" /\ outcome'[t] = "ok"
  \/ \E r \in late \ late' : a = r.ask

Target(a) == IF a.op = "edit" THEN a.target ELSE Len(messages) + 1

(* What BotX keeps once it has taken a send, a reply or an edit with a     *)
(* text, in time or late, reads as the bot wrote it: every tag where it    *)
(* stood, resolved to the mention it was built from, the rest untouched,   *)
(* equal tags included.  (mentions.py:317-340)                             *)
TextReadsAsWritten ==
  [][\A a \in UnderWay : Taken(a) /\ a.body # Undefined =>
       Reads(messages'[Target(a)], a.body.of)]_vars

(* edit_message's contract, through the cleaning of the payload: what the  *)
(* caller skips keeps its value, also one that another edit gave it while  *)
(* this one was under way, what he passes is the new value, and an empty   *)
(* markup, empty metadata or file=None clean theirs.  (client.py 536-551)  *)
EditChangesWhatIsGiven ==
  [][\A a \in UnderWay : Taken(a) /\ a.op = "edit" =>
       LET old == messages[a.target]
           new == messages'[a.target]
       IN /\ IF a.body = Undefined
               THEN new.body = old.body /\ new.mentions = old.mentions
               ELSE Reads(new, a.body.of)
          /\ IF a.extra.bubble = Undefined THEN new.bubble = old.bubble
             ELSE new.bubble # Undefined /\ Labels(new.bubble) = Wanted(a.extra.bubble)
          /\ IF a.extra.metadata = Undefined THEN new.metadata = old.metadata
             ELSE new.metadata = a.extra.metadata
          /\ IF a.extra.file = Undefined THEN new.file = old.file
             ELSE new.file = a.extra.file]_vars

(* No Undefined reaches json.dumps, however deep it was: in the data of a  *)
(* mention within the list of mentions, in the options of a button within  *)
(* a row within a markup.  (api_base.py:10-45, markup.py:188-191)          *)
PostedIsJson ==
  \A t \in Threads : pc[t] = "posting" => IsJson(json[t])
=============================================================================
