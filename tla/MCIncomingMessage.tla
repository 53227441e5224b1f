-------------------------- MODULE MCIncomingMessage --------------------------
(***************************************************************************)
(* Small values for IncomingMessage.                                       *)
(***************************************************************************)
EXTENDS IncomingMessage, SequencesExt

Attachment(is, type, content) ==
  [is |-> is, type |-> type, content |-> content, data |-> TRUE]

(* An object of a type to come, which keeps its content elsewhere.         *)
Novel == [Attachment("dict", "link", "whole") EXCEPT !.data = FALSE]

Entity(is, type, mentions) == [is |-> is, type |-> type, mentions |-> mentions]

(* One attachment of every type and content, and pairs of a few.           *)
EveryAttachment ==
  {Attachment("other", "link", "whole"), Attachment("dict", "link", "whole")}
    \union {Attachment("typed", type, content) :
              type \in AttachmentTypes, content \in Contents}

FewAttachments ==
  {Attachment("other", "link", "whole"), Attachment("dict", "link", "whole"), Novel,
   Attachment("typed", "voice", "whole"), Attachment("typed", "voice", "empty"),
   Attachment("typed", "image", "empty"), Attachment("typed", "document", "corrupt")}

EveryEntity ==
  {Entity("other", "mention", <<>>), Entity("dict", "mention", <<>>),
   Entity("typed", "forward", <<>>), Entity("typed", "reply", <<>>)}
    \union {Entity("typed", type, <<m>>) : type \in {"mention", "reply"}, m \in Mentions}

FewEntities ==
  {Entity("other", "mention", <<>>), Entity("dict", "mention", <<>>),
   Entity("typed", "forward", <<>>), Entity("typed", "reply", <<>>),
   Entity("typed", "mention", <<[kind |-> "all", data |-> FALSE]>>),
   Entity("typed", "mention", <<[kind |-> "user", data |-> FALSE]>>)}

Of(attachmentLists, entityLists) ==
  [kind : {"message", "event_edit"}, version : {"supported"}, novel : {{}},
   attachments : attachmentLists, entities : entityLists]

AttachmentCommands ==
  Of({<<a>> : a \in EveryAttachment} \union BoundedSeq(FewAttachments, 2),
     {<<>>} \union {<<e>> : e \in EveryEntity})

EntityCommands ==
  Of({<<>>, <<Attachment("typed", "link", "whole")>>, <<Novel>>},
     BoundedSeq(FewEntities, 3))

(* Commands of every kind, of both versions, new in any of their places;   *)
(* logged with no attachment, or with one that is no object.               *)
NovelIn(kind) ==
  SUBSET (StrictlyRead(kind) \union
            IF kind \in WithChatType THEN {"chat_type"} ELSE {})

EventCommands ==
  UNION {[kind : {kind}, version : {"supported", "other"}, novel : NovelIn(kind),
          attachments : {<<>>, <<Attachment("other", "link", "whole")>>},
          entities : {<<>>, <<Entity("dict", "mention", <<>>)>>}] :
           kind \in {"message", "unknown"} \union ToSet(SystemEvents)}

SomeCommands == AttachmentCommands \union EntityCommands \union EventCommands
=============================================================================
