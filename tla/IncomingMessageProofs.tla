------------------------ MODULE IncomingMessageProofs ------------------------
(***************************************************************************)
(* Proofs about IncomingMessage, for any set of commands: lists of any     *)
(* length, of any items.                                                   *)
(***************************************************************************)
EXTENDS IncomingMessage, TLAPS

Messages ==
  [chat : {"none", "known", "UNSUPPORTED"}, attachments : SUBSET Nat,
   mentions : Seq(Nat), forward : Nat, reply : Nat, entities : Seq(Nat)]

TypeInv ==
  /\ command \in CommandTypes
  /\ stage \in {"parsing", "attachments", "entities"}
  /\ next \in 1..(Len(command.entities) + 1)
  /\ message \in Messages

(* Before its lists are converted the domain object is blank.              *)
BlankInv == stage # "entities" => message = Blank /\ next = 1

(* What has been validated: an edited message has items of known types.    *)
ParsedInv ==
  /\ stage # "parsing" =>
       /\ command.version = "supported"
       /\ Strict => AllTyped(command.attachments) /\ AllTyped(command.entities)
  /\ outcome = "ok" => stage = "entities" /\ next = Len(command.entities) + 1

(* MentionsInv, LastInv: what a message has after the entities before n.   *)
MentionsInv(positions, n) ==
  /\ \A k \in DOMAIN positions :
       IsEntity(positions[k], "mention") /\ positions[k] < n
  /\ \A i \in 1..(n - 1) : IsEntity(i, "mention") =>
       \E k \in DOMAIN positions : positions[k] = i
  /\ \A k, l \in DOMAIN positions : k < l => positions[k] < positions[l]

LastInv(position, type, n) ==
  /\ position = 0 \/ IsEntity(position, type)
  /\ position < n
  /\ \A i \in 1..(n - 1) : IsEntity(i, type) => i <= position

LoopInv ==
  stage = "entities" =>
    /\ message.attachments = ToConvert
    /\ ~Strict =>
         /\ MentionsInv(message.mentions, next)
         /\ LastInv(message.forward, "forward", next)
         /\ LastInv(message.reply, "reply", next)
    /\ Strict => message.entities = [i \in 1..(next - 1) |-> i]

IInv ==
  /\ TypeInv
  /\ BlankInv
  /\ ParsedInv
  /\ LoopInv
  /\ UnknownIsTolerated
  /\ RefusalTellsWhy

-----------------------------------------------------------------------------
(* The errors of the log line are not those of the validation.             *)
LEMMA LogErrorType == LogError \in {"none", "TypeError", "KeyError"}
  BY DEF LogError

LEMMA ContentErrorType ==
  ASSUME NEW a
  PROVE  ContentError(a) \in {"none", "IndexError", "binascii.Error"}
  BY DEF ContentError

LEMMA EntityErrorType ==
  ASSUME NEW e
  PROVE  EntityError(e) \in {"none", "AttributeError"}
  BY DEF EntityError

LEMMA ClassErrorType ==
  ASSUME NEW c
  PROVE  ClassError(c) \in {"none", "ValidationError", "UnknownSystemEventError",
                            "UnsupportedBotAPIVersionError"}
  BY DEF ClassError

(* The positions ToConvert picks in a message, said without Kept.          *)
LEMMA FirstKept ==
  ASSUME command.attachments \in Seq(Attachments), ~Strict,
         NEW i \in DOMAIN command.attachments
  PROVE  i \in ToConvert <=>
           /\ Typed(command.attachments[i])
           /\ \A j \in 1..(i - 1) : command.attachments[j].is = "other"
<1>1. DOMAIN command.attachments = 1..Len(command.attachments)
  OBVIOUS
<1>2. Typed(command.attachments[i]) => i \in Kept
  BY DEF Typed, Kept
<1>3. ASSUME i \in ToConvert, NEW j \in 1..(i - 1)
      PROVE  command.attachments[j].is = "other"
  <2>1. j \in DOMAIN command.attachments /\ ~(i <= j)
    BY <1>1
  <2> QED BY <1>3, <2>1 DEF ToConvert, Kept
<1>4. ASSUME \A j \in 1..(i - 1) : command.attachments[j].is = "other",
             NEW j \in Kept
      PROVE  i <= j
  <2>1. j \in 1..Len(command.attachments) /\ i \in 1..Len(command.attachments)
    BY <1>1 DEF Kept
  <2>2. j \notin 1..(i - 1)
    BY <1>4 DEF Kept
  <2> QED BY <2>1, <2>2
<1> QED BY <1>2, <1>3, <1>4 DEF ToConvert

(* A class that decides: what it says of the command as a whole.           *)
LEMMA Decision ==
  ASSUME NEW i \in DOMAIN Classes, Decides(i), command \in CommandTypes
  PROVE  LET e == ClassError(Classes[i]) IN
         /\ e = "UnsupportedBotAPIVersionError" <=> command.version # "supported"
         /\ e = "UnknownSystemEventError" <=>
              command.version = "supported" /\ command.kind = "unknown"
         /\ e = "none" => Validates(command.kind)
         /\ e = "ValidationError" /\ command.kind = "message" =>
              "platform" \in command.novel
<1>1. CASE command.version # "supported"
  BY <1>1 DEF ClassError
<1>2. CASE command.version = "supported" /\ command.kind = "unknown"
  <2>1. Classes = SystemEvents
    BY <1>2 DEF Classes
  <2>2. ~Validates("smartapp_event")
    BY <1>2 DEF Validates
  <2>3. ClassError("smartapp_event") = "ValidationError"
    BY <1>2, <2>2 DEF ClassError, WithoutEventCheck
  <2>4. ClassError("internal_bot_notification") = "UnknownSystemEventError"
    BY <1>2 DEF ClassError, WithoutEventCheck
  <2>5. /\ SystemEvents[1] = "smartapp_event"
        /\ SystemEvents[2] = "internal_bot_notification"
        /\ Len(SystemEvents) = 15
        /\ DOMAIN SystemEvents = 1..15
    BY DEF SystemEvents
  <2>6. i # 1
    BY <2>1, <2>3, <2>5 DEF Decides
  <2>7. ~(i > 2)
    BY <2>1, <2>4, <2>5 DEF Decides
  <2>8. i = 2
    BY <2>1, <2>5, <2>6, <2>7
  <2> QED BY <1>2, <2>1, <2>4, <2>5, <2>8
<1>3. CASE command.version = "supported" /\ command.kind # "unknown"
  <2>1. ClassError(Classes[i]) =
          IF Validates(Classes[i]) THEN "none" ELSE "ValidationError"
    BY <1>3 DEF ClassError
  <2>2. Validates(Classes[i]) => Classes[i] = command.kind
    BY DEF Validates
  <2>3. ASSUME command.kind = "message", ~Validates(Classes[i])
        PROVE  "platform" \in command.novel
    <3>1. Classes = <<"message">>
      BY <2>3 DEF Classes
    <3>2. Classes[i] = "message"
      BY <3>1
    <3>3. command.novel \intersect {"platform"} # {}
      BY <2>3, <3>2 DEF Validates, StrictlyRead
    <3> QED BY <3>3
  <2> QED BY <1>3, <2>1, <2>2, <2>3
<1> QED BY <1>1, <1>2, <1>3

-----------------------------------------------------------------------------
LEMMA InitInv == Init => IInv
<1> SUFFICES ASSUME Init PROVE IInv
  OBVIOUS
<1>1. command \in CommandTypes
  BY CommandsAssumption DEF Init
<1>2. command.entities \in Seq(Entities)
  BY <1>1 DEF CommandTypes
<1>3. message \in Messages
  <2>1. <<>> \in Seq(Nat)
    OBVIOUS
  <2> QED BY <2>1 DEF Init, Blank, Messages
<1>4. TypeInv
  BY <1>1, <1>2, <1>3 DEF Init, TypeInv
<1> QED BY <1>4 DEF Init, IInv, BlankInv, ParsedInv, LoopInv, UnknownIsTolerated,
                    RefusalTellsWhy

(* What every step leaves alone, and what it needs to know.                *)
LEMMA Parsing ==
  ASSUME IInv, ParseCommand
  PROVE  IInv'
<1>1. /\ outcome = "pending" /\ stage = "parsing"
      /\ message' = message /\ next' = next
      /\ command' = command /\ logsDebug' = logsDebug
  BY DEF ParseCommand, At, Fail
<1>2. CASE LogError # "none" /\ Fail(LogError)
  <2>1. outcome' \in {"TypeError", "KeyError"} /\ stage' = "parsing"
    BY <1>1, <1>2, LogErrorType DEF Fail
  <2>2. LogError' = LogError
    BY <1>1 DEF LogError
  <2>3. TypeInv' /\ BlankInv'
    BY <1>1, <2>1 DEF IInv, TypeInv, BlankInv
  <2>4. UnknownIsTolerated'
    BY <2>1 DEF UnknownIsTolerated
  <2> QED BY <1>2, <2>1, <2>2, <2>3, <2>4 DEF IInv, ParsedInv, LoopInv, RefusalTellsWhy
<1>3. ASSUME LogError = "none", NEW i \in DOMAIN Classes, Decides(i),
             ClassError(Classes[i]) # "none", Fail(ClassError(Classes[i]))
      PROVE  IInv'
  <2>1. outcome' = ClassError(Classes[i]) /\ stage' = "parsing"
    BY <1>1, <1>3 DEF Fail
  <2>2. outcome' \in {"ValidationError", "UnknownSystemEventError",
                      "UnsupportedBotAPIVersionError"}
    BY <1>3, <2>1, ClassErrorType
  <2>3. TypeInv' /\ BlankInv'
    BY <1>1, <2>1 DEF IInv, TypeInv, BlankInv
  <2>4. command \in CommandTypes
    BY DEF IInv, TypeInv
  <2>5. /\ outcome' = "UnsupportedBotAPIVersionError" <=> command.version # "supported"
        /\ outcome' = "UnknownSystemEventError" <=>
             command.version = "supported" /\ command.kind = "unknown"
        /\ outcome' = "ValidationError" /\ command.kind = "message" =>
             "platform" \in command.novel
    BY <1>3, <2>1, <2>4, Decision
  <2>6. UnknownIsTolerated'
    BY <1>1, <2>1, <2>5 DEF UnknownIsTolerated
  <2>7. RefusalTellsWhy'
    BY <1>1, <2>5 DEF RefusalTellsWhy
  <2> QED BY <2>1, <2>2, <2>3, <2>6, <2>7 DEF IInv, ParsedInv, LoopInv
<1>4. ASSUME LogError = "none", NEW i \in DOMAIN Classes, Decides(i),
             ClassError(Classes[i]) = "none", stage' = "attachments",
             outcome' = outcome
      PROVE  IInv'
  <2>1. command \in CommandTypes
    BY DEF IInv, TypeInv
  <2>2. command.version = "supported" /\ Validates(command.kind)
    BY <1>4, <2>1, Decision
  <2>3. TypeInv' /\ BlankInv'
    BY <1>1, <1>4 DEF IInv, TypeInv, BlankInv
  <2>4. ParsedInv'
    <3>1. Strict => AllTyped(command.attachments) /\ AllTyped(command.entities)
      BY <2>2 DEF Strict, Validates
    <3> QED BY <1>1, <1>4, <2>2, <3>1 DEF ParsedInv, Strict, AllTyped
  <2> QED BY <1>1, <1>4, <2>3, <2>4 DEF IInv, LoopInv, UnknownIsTolerated,
                                        RefusalTellsWhy
<1> QED BY <1>2, <1>3, <1>4 DEF ParseCommand

LEMMA Attaching ==
  ASSUME IInv, ConvertAttachments
  PROVE  IInv'
<1> DEFINE failing ==
      {i \in ToConvert : ContentError(command.attachments[i]) # "none"}
<1>1. /\ outcome = "pending" /\ stage = "attachments"
      /\ command' = command /\ logsDebug' = logsDebug /\ next' = next
  BY DEF ConvertAttachments, At, Fail
<1>2. /\ command.attachments \in Seq(Attachments)
      /\ command.entities \in Seq(Entities)
      /\ next = 1 /\ message = Blank
  BY <1>1 DEF IInv, TypeInv, CommandTypes, BlankInv
<1>3. DOMAIN command.attachments = 1..Len(command.attachments)
  BY <1>2
<1>4. ASSUME NEW i \in failing, \A j \in failing : i <= j,
             Fail(ContentError(command.attachments[i]))
      PROVE  IInv'
  <2>1. outcome' = ContentError(command.attachments[i]) /\ stage' = "attachments"
    BY <1>1, <1>4 DEF Fail
  <2>2. outcome' \in {"IndexError", "binascii.Error"}
    BY <1>4, <2>1, ContentErrorType
  <2>3. TypeInv' /\ BlankInv'
    BY <1>1, <1>2, <1>4, <2>1 DEF IInv, TypeInv, BlankInv, Fail
  <2>4. ParsedInv'
    BY <1>1, <2>1, <2>2 DEF IInv, ParsedInv, Strict, AllTyped
  <2>5. UnknownIsTolerated'
    <3> SUFFICES ASSUME command.kind = "message"
                 PROVE  UnknownIsTolerated'
      BY <1>1 DEF UnknownIsTolerated
    <3>1. i \in DOMAIN command.attachments /\ i \in ToConvert
      BY DEF ToConvert, Kept
    <3>2. /\ Typed(command.attachments[i])
          /\ \A j \in 1..(i - 1) : command.attachments[j].is = "other"
      BY <1>2, <3>1, FirstKept DEF Strict
    <3> QED BY <1>1, <2>2, <3>1, <3>2 DEF UnknownIsTolerated
  <2> QED BY <2>1, <2>3, <2>4, <2>5 DEF IInv, LoopInv, RefusalTellsWhy
<1>5. ASSUME failing = {}, stage' = "entities", outcome' = outcome,
             message' = [message EXCEPT !.chat = ChatOf, !.attachments = ToConvert]
      PROVE  IInv'
  <2>1. ChatOf \in {"none", "known", "UNSUPPORTED"}
    BY DEF ChatOf
  <2>2. ToConvert \in SUBSET Nat
    BY <1>2, <1>3 DEF ToConvert, Kept
  <2>3. message' = [chat |-> ChatOf, attachments |-> ToConvert, mentions |-> <<>>,
                    forward |-> 0, reply |-> 0, entities |-> <<>>]
    BY <1>2, <1>5 DEF Blank
  <2>4. message' \in Messages
    <3>1. <<>> \in Seq(Nat)
      OBVIOUS
    <3> QED BY <2>1, <2>2, <2>3, <3>1 DEF Messages
  <2>5. TypeInv'
    BY <1>1, <1>5, <2>4 DEF IInv, TypeInv
  <2>6. ParsedInv'
    BY <1>1, <1>5 DEF IInv, ParsedInv, Strict, AllTyped
  <2>7. LoopInv'
    <3>1. ToConvert' = ToConvert
      BY <1>1 DEF ToConvert, Kept, Strict
    <3>2. MentionsInv(<<>>, 1) /\ LastInv(0, "forward", 1) /\ LastInv(0, "reply", 1)
      BY DEF MentionsInv, LastInv
    <3>3. <<>> = [i \in 1..(1 - 1) |-> i]
      OBVIOUS
    <3>4. /\ message'.attachments = ToConvert /\ message'.mentions = <<>>
          /\ message'.forward = 0 /\ message'.reply = 0
          /\ message'.entities = <<>> /\ next' = 1
      BY <1>1, <1>2, <2>3
    <3> QED BY <3>1, <3>2, <3>3, <3>4, <1>1
            DEF LoopInv, MentionsInv, LastInv, IsEntity, Strict
  <2> QED BY <1>1, <1>5, <2>5, <2>6, <2>7
          DEF IInv, BlankInv, UnknownIsTolerated, RefusalTellsWhy
<1> QED BY <1>4, <1>5 DEF ConvertAttachments

-----------------------------------------------------------------------------
(* The loop goes from n to n + 1.                                          *)
LEMMA MentionAppended ==
  ASSUME NEW n \in Nat \ {0}, NEW s \in Seq(Nat), MentionsInv(s, n),
         IsEntity(n, "mention")
  PROVE  MentionsInv(Append(s, n), n + 1)
<1> DEFINE t == Append(s, n)
<1>1. /\ DOMAIN s = 1..Len(s) /\ Len(s) \in Nat
      /\ DOMAIN t = 1..(Len(s) + 1)
      /\ \A k \in DOMAIN s : t[k] = s[k] /\ s[k] \in Nat
      /\ t[Len(s) + 1] = n
  OBVIOUS
<1> HIDE DEF t
<1>2. \A k \in DOMAIN t : IsEntity(t[k], "mention") /\ t[k] < n + 1
  <2> SUFFICES ASSUME NEW k \in DOMAIN t
               PROVE  IsEntity(t[k], "mention") /\ t[k] < n + 1
    OBVIOUS
  <2>1. CASE k \in DOMAIN s
    BY <1>1, <2>1 DEF MentionsInv
  <2>2. CASE k = Len(s) + 1
    BY <1>1, <2>2
  <2> QED BY <1>1, <2>1, <2>2
<1>3. ASSUME NEW i \in 1..n, IsEntity(i, "mention")
      PROVE  \E k \in DOMAIN t : t[k] = i
  <2>1. CASE i = n
    BY <1>1, <2>1
  <2>2. CASE i # n
    <3>1. i \in 1..(n - 1)
      BY <2>2
    <3>2. PICK k \in DOMAIN s : s[k] = i
      BY <1>3, <3>1 DEF MentionsInv
    <3> QED BY <1>1, <3>2
  <2> QED BY <2>1, <2>2
<1>4. ASSUME NEW k \in DOMAIN t, NEW l \in DOMAIN t, k < l
      PROVE  t[k] < t[l]
  <2>1. k \in DOMAIN s
    BY <1>1, <1>4
  <2>2. CASE l \in DOMAIN s
    BY <1>1, <1>4, <2>1, <2>2 DEF MentionsInv
  <2>3. CASE l = Len(s) + 1
    BY <1>1, <2>1, <2>3 DEF MentionsInv
  <2> QED BY <1>1, <2>2, <2>3
<1>5. (n + 1) - 1 = n
  OBVIOUS
<1> QED BY <1>2, <1>3, <1>4, <1>5 DEF MentionsInv, t

LEMMA MentionsKept ==
  ASSUME NEW n \in Nat \ {0}, NEW s \in Seq(Nat), MentionsInv(s, n),
         ~IsEntity(n, "mention")
  PROVE  MentionsInv(s, n + 1)
<1>1. \A k \in DOMAIN s : s[k] \in Nat
  OBVIOUS
<1>2. \A i \in 1..((n + 1) - 1) : i = n \/ i \in 1..(n - 1)
  OBVIOUS
<1> QED BY <1>1, <1>2 DEF MentionsInv

LEMMA LastReplaced ==
  ASSUME NEW n \in Nat \ {0}, NEW type, IsEntity(n, type)
  PROVE  LastInv(n, type, n + 1)
BY DEF LastInv

LEMMA LastKept ==
  ASSUME NEW n \in Nat \ {0}, NEW p \in Nat, NEW type, LastInv(p, type, n),
         ~IsEntity(n, type)
  PROVE  LastInv(p, type, n + 1)
<1>1. \A i \in 1..((n + 1) - 1) : i = n \/ i \in 1..(n - 1)
  OBVIOUS
<1> QED BY <1>1 DEF LastInv

LEMMA Converting ==
  ASSUME IInv, ConvertEntity
  PROVE  IInv'
<1> DEFINE entity == command.entities[next]
<1>1. /\ outcome = "pending" /\ stage = "entities" /\ stage' = stage
      /\ command' = command /\ logsDebug' = logsDebug
      /\ next \in DOMAIN command.entities
  BY DEF ConvertEntity, At, Fail
<1>2. /\ command.entities \in Seq(Entities)
      /\ next \in Nat \ {0} /\ next \in 1..Len(command.entities)
      /\ message \in Messages
  BY <1>1 DEF IInv, TypeInv, CommandTypes
<1>3. entity \in Entities
  BY <1>1, <1>2
<1>4. /\ ToConvert' = ToConvert /\ Strict' = Strict
      /\ \A i, type : IsEntity(i, type)' = IsEntity(i, type)
  BY <1>1 DEF ToConvert, Kept, Strict, IsEntity
<1>5. ASSUME Typed(entity), EntityError(entity) # "none", Fail(EntityError(entity))
      PROVE  IInv'
  <2>1. outcome' = "AttributeError" /\ message' = message /\ next' = next
    BY <1>5, EntityErrorType DEF Fail
  <2>2. TypeInv' /\ BlankInv' /\ ParsedInv'
    BY <1>1, <2>1 DEF IInv, TypeInv, BlankInv, ParsedInv, Strict, AllTyped
  <2>3. LoopInv'
    BY <1>1, <1>4, <2>1 DEF IInv, LoopInv, MentionsInv, LastInv, IsEntity
  <2>4. UnknownIsTolerated'
    BY <1>1, <1>5, <2>1 DEF UnknownIsTolerated
  <2> QED BY <1>1, <2>2, <2>3, <2>4 DEF IInv, RefusalTellsWhy
<1>6. ASSUME message' = WithEntity(entity), next' = next + 1, outcome' = outcome
      PROVE  IInv'
  <2> DEFINE is(type) == IsEntity(next, type)
  <2>1. /\ message.mentions \in Seq(Nat) /\ message.entities \in Seq(Nat)
        /\ message.forward \in Nat /\ message.reply \in Nat
    BY <1>2 DEF Messages
  <2>2. CASE Strict
    <3>1. message' = [message EXCEPT !.entities = Append(@, next)]
      BY <1>6, <2>2 DEF WithEntity
    <3>2. message' \in Messages
      <4>1. Append(message.entities, next) \in Seq(Nat)
        BY <1>2, <2>1
      <4> QED BY <1>2, <3>1, <4>1 DEF Messages
    <3>3. message'.attachments = ToConvert
      BY <1>1, <1>2, <3>1 DEF IInv, LoopInv, Messages
    <3>4. message'.entities = [i \in 1..((next + 1) - 1) |-> i]
      <4>1. message.entities = [i \in 1..(next - 1) |-> i]
        BY <1>1, <2>2 DEF IInv, LoopInv
      <4>2. Append([i \in 1..(next - 1) |-> i], next) = [i \in 1..((next + 1) - 1) |-> i]
        <5> DEFINE s == [i \in 1..(next - 1) |-> i]
        <5>1. s \in Seq(Nat) /\ Len(s) = next - 1
          BY <1>2
        <5>2. Append(s, next) = [i \in 1..(Len(s) + 1) |->
                                   IF i <= Len(s) THEN s[i] ELSE next]
          BY <1>2, <5>1
        <5> QED BY <1>2, <5>1, <5>2
      <4>3. message'.entities = Append(message.entities, next)
        BY <1>2, <3>1 DEF Messages
      <4> QED BY <4>1, <4>2, <4>3
    <3>5. LoopInv'
      BY <1>4, <1>6, <2>2, <3>3, <3>4 DEF LoopInv
    <3> QED BY <1>1, <1>2, <1>6, <3>2, <3>5
            DEF IInv, TypeInv, BlankInv, ParsedInv, UnknownIsTolerated,
                RefusalTellsWhy, Strict, AllTyped
  <2>3. CASE ~Strict
    <3>1. message \in Messages /\ message.attachments = ToConvert
          /\ MentionsInv(message.mentions, next)
          /\ LastInv(message.forward, "forward", next)
          /\ LastInv(message.reply, "reply", next)
      BY <1>1, <1>2, <2>3 DEF IInv, LoopInv
    <3>2. /\ message' \in Messages /\ message'.attachments = ToConvert
          /\ MentionsInv(message'.mentions, next + 1)
          /\ LastInv(message'.forward, "forward", next + 1)
          /\ LastInv(message'.reply, "reply", next + 1)
      <4>1. CASE ~Typed(entity)
        <5>1. message' = message
          BY <1>6, <2>3, <4>1 DEF WithEntity
        <5>2. \A type : ~IsEntity(next, type)
          BY <4>1 DEF IsEntity
        <5> QED BY <1>2, <2>1, <3>1, <5>1, <5>2, MentionsKept, LastKept
      <4>2. CASE Typed(entity) /\ entity.type = "mention"
        <5>1. message' = [message EXCEPT !.mentions = Append(@, next)]
          BY <1>6, <2>3, <4>2 DEF WithEntity
        <5>2. is("mention") /\ ~is("forward") /\ ~is("reply")
          BY <1>1, <4>2 DEF IsEntity
        <5>3. Append(message.mentions, next) \in Seq(Nat)
          BY <1>2, <2>1
        <5>4. /\ message' \in Messages
              /\ message'.mentions = Append(message.mentions, next)
              /\ message'.attachments = message.attachments
              /\ message'.forward = message.forward /\ message'.reply = message.reply
          BY <1>2, <5>1, <5>3 DEF Messages
        <5>5. MentionsInv(message'.mentions, next + 1)
          BY <1>2, <2>1, <3>1, <5>2, <5>4, MentionAppended
        <5> QED BY <1>2, <2>1, <3>1, <5>2, <5>4, <5>5, LastKept
      <4>3. CASE Typed(entity) /\ entity.type = "forward"
        <5>1. message' = [message EXCEPT !.forward = next]
          BY <1>6, <2>3, <4>3 DEF WithEntity
        <5>2. ~is("mention") /\ is("forward") /\ ~is("reply")
          BY <1>1, <4>3 DEF IsEntity
        <5>3. /\ message' \in Messages
              /\ message'.mentions = message.mentions
              /\ message'.attachments = message.attachments
              /\ message'.forward = next /\ message'.reply = message.reply
          BY <1>2, <5>1 DEF Messages
        <5>4. LastInv(message'.forward, "forward", next + 1)
          BY <1>2, <5>2, <5>3, LastReplaced
        <5> QED BY <1>2, <2>1, <3>1, <5>2, <5>3, <5>4, MentionsKept, LastKept
      <4>4. CASE Typed(entity) /\ entity.type = "reply"
        <5>1. message' = [message EXCEPT !.reply = next]
          BY <1>6, <2>3, <4>4 DEF WithEntity
        <5>2. ~is("mention") /\ ~is("forward") /\ is("reply")
          BY <1>1, <4>4 DEF IsEntity
        <5>3. /\ message' \in Messages
              /\ message'.mentions = message.mentions
              /\ message'.attachments = message.attachments
              /\ message'.forward = message.forward /\ message'.reply = next
          BY <1>2, <5>1 DEF Messages
        <5>4. LastInv(message'.reply, "reply", next + 1)
          BY <1>2, <5>2, <5>3, LastReplaced
        <5> QED BY <1>2, <2>1, <3>1, <5>2, <5>3, <5>4, MentionsKept, LastKept
      <4>5. entity.type \in {"mention", "forward", "reply"}
        BY <1>3 DEF Entities
      <4> QED BY <4>1, <4>2, <4>3, <4>4, <4>5
    <3>3. LoopInv'
      <4>1. MentionsInv(message.mentions, next)'
        BY <1>1, <1>6, <3>2 DEF MentionsInv, IsEntity
      <4>2. LastInv(message.forward, "forward", next)'
        BY <1>1, <1>6, <3>2 DEF LastInv, IsEntity
      <4>3. LastInv(message.reply, "reply", next)'
        BY <1>1, <1>6, <3>2 DEF LastInv, IsEntity
      <4> QED BY <1>4, <2>3, <3>2, <4>1, <4>2, <4>3 DEF LoopInv
    <3> QED BY <1>1, <1>2, <1>6, <3>2, <3>3
            DEF IInv, TypeInv, BlankInv, ParsedInv, UnknownIsTolerated,
                RefusalTellsWhy, Strict, AllTyped
  <2> QED BY <2>2, <2>3
<1> QED BY <1>5, <1>6 DEF ConvertEntity

LEMMA Returning ==
  ASSUME IInv, Return
  PROVE  IInv'
<1>1. /\ outcome = "pending" /\ stage = "entities" /\ outcome' = "ok"
      /\ next > Len(command.entities)
      /\ UNCHANGED <<command, logsDebug, stage, next, message>>
  BY DEF Return, At
<1>2. next = Len(command.entities) + 1
  <2>1. command.entities \in Seq(Entities)
    BY DEF IInv, TypeInv, CommandTypes
  <2> QED BY <1>1, <2>1 DEF IInv, TypeInv
<1>3. TypeInv' /\ BlankInv'
  BY <1>1 DEF IInv, TypeInv, BlankInv
<1>4. ParsedInv'
  BY <1>1, <1>2 DEF IInv, ParsedInv, Strict, AllTyped
<1>5. LoopInv'
  BY <1>1 DEF IInv, LoopInv, MentionsInv, LastInv, IsEntity, ToConvert, Kept, Strict
<1> QED BY <1>1, <1>3, <1>4, <1>5 DEF IInv, UnknownIsTolerated, RefusalTellsWhy

LEMMA Stuttering ==
  ASSUME IInv, UNCHANGED vars
  PROVE  IInv'
BY DEF vars, IInv, TypeInv, BlankInv, ParsedInv, LoopInv, MentionsInv, LastInv,
       IsEntity, ToConvert, Kept, Strict, AllTyped, UnknownIsTolerated,
       RefusalTellsWhy, LogError

THEOREM Invariance == Spec => []IInv
<1>1. IInv /\ [Next]_vars => IInv'
  BY Parsing, Attaching, Converting, Returning, Stuttering DEF Next
<1> QED BY InitInv, <1>1, PTL DEF Spec

-----------------------------------------------------------------------------
(* A message of any length is handed over with every mention in order, its *)
(* last forward and reply and its first attachment, whatever unknown items *)
(* stand between them.                                                     *)
THEOREM MessagesAreFaithful == Spec => []MessageIsFaithful
<1>1. IInv => MessageIsFaithful
  <2> SUFFICES ASSUME IInv, outcome = "ok", command.kind = "message"
               PROVE  MessageIsFaithful
    BY DEF MessageIsFaithful
  <2>1. /\ command.attachments \in Seq(Attachments)
        /\ command.entities \in Seq(Entities)
        /\ message \in Messages
    BY DEF IInv, TypeInv, CommandTypes
  <2>2. stage = "entities" /\ next = Len(command.entities) + 1 /\ ~Strict
    BY DEF IInv, ParsedInv, Strict
  <2>3. next - 1 = Len(command.entities)
        /\ DOMAIN command.entities = 1..Len(command.entities)
    BY <2>1, <2>2
  <2>4. /\ message.attachments = ToConvert
        /\ MentionsInv(message.mentions, next)
        /\ LastInv(message.forward, "forward", next)
        /\ LastInv(message.reply, "reply", next)
    BY <2>2 DEF IInv, LoopInv
  <2>5. AllInOrder(message.mentions, "mention")
    BY <2>3, <2>4 DEF AllInOrder, MentionsInv
  <2>6. IsLast(message.forward, "forward") /\ IsLast(message.reply, "reply")
    BY <2>3, <2>4 DEF IsLast, LastInv
  <2> QED BY <2>1, <2>2, <2>4, <2>5, <2>6, FirstKept DEF MessageIsFaithful
<1> QED BY Invariance, <1>1, PTL

(* An edited message of any length is handed over whole or not at all.     *)
THEOREM EditsAreWhole == Spec => []EditIsWhole
<1>1. IInv => EditIsWhole
  <2> SUFFICES ASSUME IInv, outcome = "ok", Strict
               PROVE  EditIsWhole
    BY DEF EditIsWhole
  <2>1. command.entities \in Seq(Entities)
    BY DEF IInv, TypeInv, CommandTypes
  <2>2. /\ stage = "entities" /\ next = Len(command.entities) + 1
        /\ AllTyped(command.attachments)
    BY DEF IInv, ParsedInv
  <2>3. next - 1 = Len(command.entities)
        /\ DOMAIN command.entities = 1..Len(command.entities)
    BY <2>1, <2>2
  <2>4. /\ message.attachments = ToConvert
        /\ message.entities = [i \in 1..(next - 1) |-> i]
    BY <2>2 DEF IInv, LoopInv
  <2>5. ToConvert = DOMAIN command.attachments
    <3>1. \A i \in DOMAIN command.attachments :
            Typed(command.attachments[i]) /\ command.attachments[i].is # "other"
      BY <2>2 DEF AllTyped, Typed
    <3> QED BY <3>1 DEF ToConvert, Kept
  <2> QED BY <2>3, <2>4, <2>5 DEF EditIsWhole
<1> QED BY Invariance, <1>1, PTL

(* Nothing that is new to the library but a platform refuses a message, in *)
(* lists of any length.                                                    *)
THEOREM NoveltyIsTolerated == Spec => []UnknownIsTolerated
BY Invariance, PTL DEF IInv

(* Every refusal of a command names its true reason.                       *)
THEOREM RefusalsAreTrue == Spec => []RefusalTellsWhy
BY Invariance, PTL DEF IInv
=============================================================================
