------------------------- MODULE ClientCallsProofs --------------------------
(***************************************************************************)
(* Proofs about the loops and the buffers of the client, for any threads,  *)
(* chats, packs, files and rows: PersonalChat, StickerPaging, UsersAsCsv   *)
(* and FileBuffers.                                                        *)
(***************************************************************************)
EXTENDS PersonalChat, StickerPaging, UsersAsCsv, FileBuffers, TLAPS

-----------------------------------------------------------------------------
(* PersonalChat.  The two invariants are not inductive: that a thread      *)
(* makes no second chat in time rests on its having none of those while it *)
(* is between the lookup that found nothing and the creation.              *)

(* Every chat kept or on its way was asked for by somebody, and a chat is  *)
(* not both.                                                               *)
Made ==
  /\ \A c \in chats \union abroad : maker[c] # NoChat
  /\ chats \intersect abroad = {}

SteadyKept == \A t \in ChatThreads : steady[t] \subseteq chats

(* A thread about to create a chat has none but those that came late.      *)
NoneOfItsOwn ==
  \A t \in ChatThreads :
    chatPc[t] = "creating" => \A c \in chats \ late : maker[c] # t

ChatIInv ==
  /\ ChatTypeOK
  /\ Made
  /\ SteadyKept
  /\ NoneOfItsOwn
  /\ NoNeedlessChat
  /\ OneChatPerMaker

-----------------------------------------------------------------------------
LEMMA ChatInitInv == ChatInit => ChatIInv
  BY PersonalChatAssumption DEF ChatInit, ChatIInv, ChatTypeOK, Made, SteadyKept,
     NoneOfItsOwn, NoNeedlessChat, OneChatPerMaker

(* A chat that somebody makes is the only one of its maker but for late    *)
(* ones, if there was no other before.                                     *)
LEMMA MakingKeeps ==
  ASSUME ChatIInv, NEW c \in ChatIds, NEW who \in ChatThreads \union {User},
         MakeChat(c, who), \A d \in chats \ late : maker[d] # who
  PROVE  /\ c \notin chats /\ c \notin late
         /\ chats' \in SUBSET ChatIds
         /\ late' \in SUBSET chats'
         /\ maker' \in [ChatIds -> ChatThreads \union {User, NoChat}]
         /\ Made'
         /\ OneChatPerMaker'
         /\ chats' \ late' = (chats \ late) \union {c}
         /\ \A d \in ChatIds : maker'[d] = IF d = c THEN who ELSE maker[d]
<1> USE PersonalChatAssumption DEF ChatIInv, ChatTypeOK, MakeChat, delayed
<1>1. c \notin chats /\ c \notin abroad /\ c \notin late
  BY DEF Made
<1>2. chats' = chats \union {c} /\ UNCHANGED <<abroad, late>>
  OBVIOUS
<1>3. \A d \in ChatIds : maker'[d] = IF d = c THEN who ELSE maker[d]
  OBVIOUS
<1>4. /\ chats' \in SUBSET ChatIds
      /\ late' \in SUBSET chats'
      /\ maker' \in [ChatIds -> ChatThreads \union {User, NoChat}]
  OBVIOUS
<1>5. Made'
  BY <1>1, <1>2, <1>3 DEF Made
<1>6. chats' \ late' = (chats \ late) \union {c}
  BY <1>1, <1>2
<1>7. OneChatPerMaker'
  BY <1>3, <1>6 DEF OneChatPerMaker
<1> QED
  BY <1>1, <1>3, <1>4, <1>5, <1>6, <1>7

(* Steps of a call that leave the chats alone.                             *)
LEMMA CallStepKeeps ==
  ASSUME ChatIInv, NEW t \in ChatThreads,
         EnsureChat(t) \/ CheckFinds(t) \/ CheckMisses(t) \/ CallRaises(t) \/ ReadChat(t)
  PROVE  ChatIInv'
<1> USE DEF ChatIInv, ChatTypeOK
<1>1. UNCHANGED <<chats, maker, abroad, late>>
  BY DEF EnsureChat, CheckFinds, CheckMisses, CallRaises, ReadChat, delayed
<1>2. ChatTypeOK'
  <2>1. CASE EnsureChat(t)
    BY <1>1, <2>1 DEF EnsureChat, ChatGoto
  <2>2. CASE CheckFinds(t)
    BY <1>1, <2>2 DEF CheckFinds, EndEnsure, ChatGoto
  <2>3. CASE CheckMisses(t)
    BY <1>1, <2>3 DEF CheckMisses, ChatGoto
  <2>4. CASE CallRaises(t)
    BY <1>1, <2>4 DEF CallRaises, EndEnsure, ChatGoto
  <2>5. CASE ReadChat(t)
    BY <1>1, <2>5 DEF ReadChat, EndEnsure, ChatGoto
  <2> QED
    BY <2>1, <2>2, <2>3, <2>4, <2>5
<1>3. Made' /\ OneChatPerMaker'
  BY <1>1 DEF Made, OneChatPerMaker
<1>4. SteadyKept'
  BY <1>1 DEF SteadyKept, EnsureChat, CheckFinds, CheckMisses, CallRaises, ReadChat
<1>5. NoneOfItsOwn' /\ NoNeedlessChat'
  <2>1. CASE EnsureChat(t)
    BY <1>1, <2>1 DEF EnsureChat, ChatGoto, NoneOfItsOwn, NoNeedlessChat
  <2>2. CASE CheckFinds(t)
    BY <1>1, <2>2 DEF CheckFinds, EndEnsure, ChatGoto, NoneOfItsOwn, NoNeedlessChat
  <2>3. CASE CheckMisses(t)
    BY <1>1, <2>3 DEF CheckMisses, ChatGoto, NoneOfItsOwn, NoNeedlessChat, SteadyKept
  <2>4. CASE CallRaises(t)
    BY <1>1, <2>4 DEF CallRaises, EndEnsure, ChatGoto, NoneOfItsOwn, NoNeedlessChat
  <2>5. CASE ReadChat(t)
    BY <1>1, <2>5 DEF ReadChat, EndEnsure, ChatGoto, NoneOfItsOwn, NoNeedlessChat
  <2> QED
    BY <2>1, <2>2, <2>3, <2>4, <2>5
<1> QED
  BY <1>2, <1>3, <1>4, <1>5

(* Creation, whether its answer arrives, is lost or comes too late.        *)
LEMMA CreationKeeps ==
  ASSUME ChatIInv, NEW t \in ChatThreads,
         Create(t) \/ CreateAnswerLost(t) \/ CreateGivenUp(t)
  PROVE  ChatIInv'
<1> USE DEF ChatIInv, ChatTypeOK
<1>1. /\ chatPc[t] = "creating"
      /\ steady' = steady
      /\ \E p \in {"reading", "idle"} : chatPc' = [chatPc EXCEPT ![t] = p]
      /\ found' \in [ChatThreads -> ChatIds \union {NoChat}]
      /\ chatOutcome' \in [ChatThreads -> {"none", "ok", "raised", "ChatNotFoundError"}]
  <2>1. CASE Create(t)
    BY <2>1 DEF Create, ChatGoto
  <2>2. CASE CreateAnswerLost(t)
    BY <2>2 DEF CreateAnswerLost, EndEnsure, ChatGoto
  <2>3. CASE CreateGivenUp(t)
    BY <2>3 DEF CreateGivenUp, EndEnsure, ChatGoto
  <2> QED
    BY <2>1, <2>2, <2>3
<1>2. \A d \in chats \ late : maker[d] # t
  BY <1>1 DEF NoneOfItsOwn
<1>3. NoNeedlessChat'
  BY <1>1 DEF NoNeedlessChat
<1>4. \A u \in ChatThreads : chatPc'[u] = "creating" => u # t /\ chatPc[u] = "creating"
  BY <1>1
<1>5. chatPc' \in [ChatThreads -> {"idle", "checking", "creating", "reading"}]
  BY <1>1
<1>6. CASE \E c \in ChatIds : MakeChat(c, t)
  <2>1. PICK c \in ChatIds : MakeChat(c, t)
    BY <1>6
  <2>2. /\ chats' \in SUBSET ChatIds
        /\ late' \in SUBSET chats'
        /\ maker' \in [ChatIds -> ChatThreads \union {User, NoChat}]
        /\ Made'
        /\ OneChatPerMaker'
        /\ chats' \ late' = (chats \ late) \union {c}
        /\ \A d \in ChatIds : maker'[d] = IF d = c THEN t ELSE maker[d]
    BY <1>2, <2>1, MakingKeeps
  <2>3. chats' = chats \union {c} /\ abroad' = abroad
    BY <2>1 DEF MakeChat, delayed
  <2>4. SteadyKept'
    BY <1>1, <2>3 DEF SteadyKept
  <2>5. NoneOfItsOwn'
    BY <1>4, <2>2 DEF NoneOfItsOwn
  <2>6. ChatTypeOK'
    BY <1>1, <1>5, <2>2, <2>3
  <2> QED
    BY <1>3, <2>2, <2>4, <2>5, <2>6
<1>7. CASE UNCHANGED <<chats, maker, delayed>>
  <2>1. UNCHANGED <<chats, maker, abroad, late>>
    BY <1>7 DEF delayed
  <2>2. Made' /\ OneChatPerMaker' /\ SteadyKept'
    BY <1>1, <2>1 DEF Made, OneChatPerMaker, SteadyKept
  <2>3. NoneOfItsOwn'
    BY <1>4, <2>1 DEF NoneOfItsOwn
  <2>4. ChatTypeOK'
    BY <1>1, <1>5, <2>1
  <2> QED
    BY <1>3, <2>2, <2>3, <2>4
<1>8. CASE CreateGivenUp(t)
  <2>1. PICK c \in ChatIds : /\ maker[c] = NoChat
                             /\ maker' = [maker EXCEPT ![c] = t]
                             /\ abroad' = abroad \union {c}
    BY <1>8 DEF CreateGivenUp
  <2>2. chats' = chats /\ late' = late /\ c \notin chats
    BY <1>8, <2>1 DEF CreateGivenUp, Made
  <2>3. \A d \in ChatIds : maker'[d] = IF d = c THEN t ELSE maker[d]
    BY <2>1
  <2>4. Made'
    BY <2>1, <2>2, <2>3, PersonalChatAssumption DEF Made
  <2>5. OneChatPerMaker' /\ SteadyKept'
    BY <1>1, <2>2, <2>3 DEF OneChatPerMaker, SteadyKept
  <2>6. NoneOfItsOwn'
    BY <1>4, <2>2, <2>3 DEF NoneOfItsOwn
  <2>7. ChatTypeOK'
    BY <1>1, <1>5, <2>1, <2>2
  <2> QED
    BY <1>3, <2>4, <2>5, <2>6, <2>7
<1> QED
  BY <1>6, <1>7, <1>8 DEF Create, CreateAnswerLost

(* A creation that comes late adds a late chat.                            *)
LEMMA CarriedOutLateKeeps == ChatIInv /\ CarriedOutLate => ChatIInv'
<1> SUFFICES ASSUME ChatIInv, CarriedOutLate PROVE ChatIInv'
  OBVIOUS
<1> USE DEF ChatIInv, ChatTypeOK
<1>1. PICK c \in abroad : /\ abroad' = abroad \ {c}
                          /\ chats' = chats \union {c}
                          /\ late' = late \union {c}
  BY DEF CarriedOutLate
<1>2. UNCHANGED <<chatPc, maker, steady, found, chatOutcome>>
  BY DEF CarriedOutLate
<1>3. chats' \ late' \subseteq chats \ late
  BY <1>1
<1>4. ChatTypeOK'
  BY <1>1, <1>2
<1>5. Made'
  BY <1>1, <1>2 DEF Made
<1>6. OneChatPerMaker' /\ NoneOfItsOwn'
  BY <1>2, <1>3 DEF OneChatPerMaker, NoneOfItsOwn
<1>7. SteadyKept' /\ NoNeedlessChat'
  BY <1>1, <1>2 DEF SteadyKept, NoNeedlessChat
<1> QED
  BY <1>4, <1>5, <1>6, <1>7

LEMMA UserOpensChatKeeps == ChatIInv /\ UserOpensChat => ChatIInv'
<1> SUFFICES ASSUME ChatIInv, UserOpensChat PROVE ChatIInv'
  OBVIOUS
<1> USE DEF ChatIInv, ChatTypeOK
<1>1. PICK c \in ChatIds : MakeChat(c, User)
  BY DEF UserOpensChat
<1>2. chats = {} /\ UNCHANGED <<chatPc, steady, found, chatOutcome>>
  BY DEF UserOpensChat
<1>3. /\ chats' \in SUBSET ChatIds
      /\ late' \in SUBSET chats'
      /\ maker' \in [ChatIds -> ChatThreads \union {User, NoChat}]
      /\ Made'
      /\ OneChatPerMaker'
      /\ chats' \ late' = (chats \ late) \union {c}
      /\ \A d \in ChatIds : maker'[d] = IF d = c THEN User ELSE maker[d]
  BY <1>1, <1>2, MakingKeeps
<1>4. chats' = {c} /\ abroad' = abroad
  BY <1>1, <1>2 DEF MakeChat, delayed
<1>5. NoneOfItsOwn'
  BY <1>2, <1>3, PersonalChatAssumption DEF NoneOfItsOwn
<1>6. NoNeedlessChat' /\ SteadyKept'
  BY <1>2, <1>4 DEF NoNeedlessChat, SteadyKept
<1>7. ChatTypeOK'
  BY <1>2, <1>3, <1>4
<1> QED
  BY <1>3, <1>5, <1>6, <1>7

LEMMA DeleteChatKeeps == ChatIInv /\ DeleteChat => ChatIInv'
<1> SUFFICES ASSUME ChatIInv, DeleteChat PROVE ChatIInv'
  OBVIOUS
<1> USE DEF ChatIInv, ChatTypeOK
<1>1. PICK c \in chats : /\ chats' = chats \ {c}
                         /\ late' = late \ {c}
                         /\ steady' = [t \in ChatThreads |-> steady[t] \ {c}]
  BY DEF DeleteChat
<1>2. UNCHANGED <<chatPc, maker, abroad, found, chatOutcome>>
  BY DEF DeleteChat
<1>3. ChatTypeOK'
  BY <1>1, <1>2
<1>4. chats' \ late' \subseteq chats \ late
  BY <1>1
<1>5. OneChatPerMaker' /\ NoneOfItsOwn'
  BY <1>2, <1>4 DEF OneChatPerMaker, NoneOfItsOwn
<1>6. Made'
  BY <1>1, <1>2 DEF Made
<1>7. SteadyKept' /\ NoNeedlessChat'
  BY <1>1, <1>2 DEF SteadyKept, NoNeedlessChat
<1> QED
  BY <1>3, <1>5, <1>6, <1>7

LEMMA ChatStepInv == ChatIInv /\ [ChatNext]_chatVars => ChatIInv'
<1> SUFFICES ASSUME ChatIInv, [ChatNext]_chatVars PROVE ChatIInv'
  OBVIOUS
<1>1. ASSUME NEW t \in ChatThreads, EnsureChat(t) \/ EnsureStep(t) PROVE ChatIInv'
  BY <1>1, CallStepKeeps, CreationKeeps DEF EnsureStep
<1>2. CASE CarriedOutLate
  BY <1>2, CarriedOutLateKeeps
<1>3. CASE UserOpensChat
  BY <1>3, UserOpensChatKeeps
<1>4. CASE DeleteChat
  BY <1>4, DeleteChatKeeps
<1>5. CASE UNCHANGED chatVars
  BY <1>5 DEF chatVars, delayed, ChatIInv, ChatTypeOK, Made, SteadyKept, NoneOfItsOwn,
     NoNeedlessChat, OneChatPerMaker
<1> QED
  BY <1>1, <1>2, <1>3, <1>4, <1>5 DEF ChatNext

LEMMA ChatInvariant == ChatSpec => []ChatIInv
  BY ChatInitInv, ChatStepInv, PTL DEF ChatSpec

(* For any number of threads and chats, and whatever the server answers:   *)
(* no call of ensure_personal_chat asks for a chat while one has been      *)
(* there all along.                                                        *)
THEOREM ChatNotDoubled == ChatSpec => []NoNeedlessChat
<1>1. ChatIInv => NoNeedlessChat
  BY DEF ChatIInv
<1> QED
  BY <1>1, ChatInvariant, PTL

(* For any number of threads, and however calls race, fail, time out and   *)
(* are made again: beside those whose creation was carried out after its   *)
(* sender had given it up, no thread has made two of the chats there are.  *)
THEOREM AtMostOneChatEach == ChatSpec => []OneChatPerMaker
<1>1. ChatIInv => OneChatPerMaker
  BY DEF ChatIInv
<1> QED
  BY <1>1, ChatInvariant, PTL

-----------------------------------------------------------------------------
(* StickerPaging.                                                          *)

NothingYet ==
  pagingPc = "created" => after = NoCursor /\ page = {} /\ given = {}

(* The packs of the page follow the ones given, and both come before the   *)
(* cursor when there is one.                                               *)
InOrder ==
  /\ \A p \in given, q \in page : p < q
  /\ after # NoCursor => \A p \in given \union page : p <= after
  /\ pagingPc = "fetching" => page = {} /\ \A p \in given : p <= after

(* A pack that has been there from the beginning is given, on the page, or *)
(* beyond a cursor that will be asked for.                                 *)
NothingMissed ==
  /\ lasting \subseteq onServer
  /\ pagingPc \in {"fetching", "giving", "holding"} =>
       \A p \in lasting :
         p \in given \union page \/ (p > after /\ (after # NoCursor \/ pagingPc = "fetching"))

PagingIInv ==
  /\ PagingTypeOK
  /\ NothingYet
  /\ InOrder
  /\ NothingMissed
  /\ LastingPacksGiven

-----------------------------------------------------------------------------
LEMMA CursorFacts ==
  /\ NoCursor = -1
  /\ \A p \in Packs : p \in Int /\ p > NoCursor /\ p # NoCursor
  BY StickerPagingAssumption DEF NoCursor

LEMMA PagingInitInv == PagingInit => PagingIInv
  BY CursorFacts DEF PagingInit, PagingIInv, PagingTypeOK, NothingYet, InOrder,
     NothingMissed, LastingPacksGiven

LEMMA AskFirstKeeps == PagingIInv /\ AskFirst => PagingIInv'
<1> SUFFICES ASSUME PagingIInv, AskFirst PROVE PagingIInv'
  OBVIOUS
<1> QED
  BY CursorFacts DEF PagingIInv, AskFirst, PagingGoto, PagingTypeOK, NothingYet,
     InOrder, NothingMissed, LastingPacksGiven

LEMMA AskNextKeeps == PagingIInv /\ AskNext => PagingIInv'
  BY DEF PagingIInv, AskNext, PagingGoto, PagingTypeOK, NothingYet, InOrder,
     NothingMissed, LastingPacksGiven

LEMMA GivePackKeeps ==
  ASSUME PagingIInv, GivePack
  PROVE  PagingIInv' /\ \A p \in given : p < latest'
<1> USE CursorFacts DEF PagingIInv
<1>1. PICK p \in page : /\ \A q \in page : p <= q
                        /\ latest' = p
                        /\ page' = page \ {p}
                        /\ given' = given \union {p}
  BY DEF GivePack
<1>2. /\ pagingPc = "giving" /\ pagingPc' = "holding"
      /\ UNCHANGED <<onServer, after, lasting>>
  BY DEF GivePack, PagingGoto
<1>3. page \subseteq Packs /\ given \subseteq Packs /\ after \in Packs \union {NoCursor}
  BY DEF PagingTypeOK
<1>4. PagingTypeOK'
  BY <1>1, <1>2, <1>3 DEF PagingTypeOK
<1>5. InOrder'
  <2>1. \A r \in given', q \in page' : r < q
    <3> SUFFICES ASSUME NEW r \in given', NEW q \in page' PROVE r < q
      OBVIOUS
    <3>1. CASE r = p
      BY <1>1, <1>3, <3>1
    <3>2. CASE r \in given
      BY <1>1, <3>2 DEF InOrder
    <3> QED
      BY <1>1, <3>1, <3>2
  <2>2. after' # NoCursor => \A r \in given' \union page' : r <= after'
    BY <1>1, <1>2 DEF InOrder
  <2> QED
    BY <1>2, <2>1, <2>2 DEF InOrder
<1>6. NothingMissed'
  BY <1>1, <1>2 DEF NothingMissed
<1>7. NothingYet' /\ LastingPacksGiven'
  BY <1>2 DEF NothingYet, LastingPacksGiven
<1>8. \A r \in given : r < latest'
  BY <1>1 DEF InOrder
<1> QED
  BY <1>4, <1>5, <1>6, <1>7, <1>8

LEMMA PageUsedUpKeeps == PagingIInv /\ PageUsedUp => PagingIInv'
<1> SUFFICES ASSUME PagingIInv, PageUsedUp PROVE PagingIInv'
  OBVIOUS
<1> QED
  BY CursorFacts DEF PagingIInv, PageUsedUp, PagingGoto, PagingTypeOK, NothingYet,
     InOrder, NothingMissed, LastingPacksGiven

LEMMA FetchPageKeeps == PagingIInv /\ FetchPage => PagingIInv'
<1> SUFFICES ASSUME PagingIInv, FetchPage PROVE PagingIInv'
  OBVIOUS
<1> USE CursorFacts DEF PagingIInv
<1>1. PICK packs \in SUBSET Packs, next \in Packs \union {NoCursor} :
        Answered(after, packs, next) /\ page' = packs /\ after' = next
  BY DEF FetchPage
<1>2. /\ pagingPc = "fetching" /\ pagingPc' = "giving"
      /\ UNCHANGED <<onServer, given, latest, lasting>>
  BY DEF FetchPage, PagingGoto
<1>3. /\ given \subseteq Packs /\ after \in Packs \union {NoCursor}
      /\ onServer \subseteq Packs /\ lasting \subseteq onServer
      /\ page = {} /\ \A p \in given : p <= after
  BY <1>2 DEF PagingTypeOK, InOrder, NothingMissed
<1>4. PagingTypeOK'
  BY <1>1, <1>2 DEF PagingTypeOK
<1>5. \A p \in packs : p > after
  BY <1>1 DEF Answered, Remaining
<1>6. InOrder'
  <2>1. \A p \in given', q \in page' : p < q
    BY <1>1, <1>2, <1>3, <1>5
  <2>2. ASSUME after' # NoCursor PROVE \A p \in given' \union page' : p <= after'
    <3>1. next \in packs /\ \A p \in packs : p <= next
      BY <1>1, <2>2 DEF Answered
    <3> QED
      BY <1>1, <1>2, <1>3, <1>5, <3>1
  <2> QED
    BY <1>2, <2>1, <2>2 DEF InOrder
<1>7. NothingMissed'
  <2>1. ASSUME NEW p \in lasting, p \notin given, p \notin packs
        PROVE  next # NoCursor /\ p > next
    <3>1. p \in Remaining(after)
      BY <1>2, <1>3, <2>1 DEF NothingMissed, Remaining
    <3>2. packs # Remaining(after)
      BY <2>1, <3>1
    <3>3. next \in packs
      BY <1>1, <3>2 DEF Answered
    <3> QED
      BY <1>1, <2>1, <3>1, <3>3 DEF Answered
  <2> QED
    BY <1>1, <1>2, <1>3, <2>1 DEF NothingMissed
<1>8. NothingYet' /\ LastingPacksGiven'
  BY <1>2 DEF NothingYet, LastingPacksGiven
<1> QED
  BY <1>4, <1>6, <1>7, <1>8

LEMMA EndingKeeps == PagingIInv /\ (FetchRaises \/ StopAsking) => PagingIInv'
  BY DEF PagingIInv, FetchRaises, StopAsking, PagingGoto, PagingTypeOK, NothingYet,
     InOrder, NothingMissed, LastingPacksGiven

LEMMA ServerKeeps == PagingIInv /\ (PackCreated \/ PackDeleted) => PagingIInv'
<1> SUFFICES ASSUME PagingIInv, PackCreated \/ PackDeleted PROVE PagingIInv'
  OBVIOUS
<1>1. /\ UNCHANGED <<pagingPc, after, page, given, latest>>
      /\ onServer' \in SUBSET Packs
      /\ lasting' \subseteq lasting /\ lasting' \subseteq onServer'
  BY DEF PackCreated, PackDeleted, PagingIInv, PagingTypeOK, NothingMissed
<1>2. PagingTypeOK' /\ NothingYet' /\ InOrder'
  BY <1>1 DEF PagingIInv, PagingTypeOK, NothingYet, InOrder
<1>3. NothingMissed' /\ LastingPacksGiven'
  BY <1>1 DEF PagingIInv, NothingMissed, LastingPacksGiven
<1> QED
  BY <1>2, <1>3 DEF PagingIInv

(* A step that leaves "giving" for "holding" gives a pack.                 *)
OrderedStep ==
  pagingPc = "giving" /\ pagingPc' = "holding" => \A p \in given : p < latest'

LEMMA PagingStepInv ==
  PagingIInv /\ [PagingNext]_pagingVars => PagingIInv' /\ [OrderedStep]_pagingVars
<1> SUFFICES ASSUME PagingIInv, [PagingNext]_pagingVars
             PROVE  PagingIInv' /\ [OrderedStep]_pagingVars
  OBVIOUS
<1>1. CASE GivePack
  BY <1>1, GivePackKeeps DEF OrderedStep
<1>2. CASE AskFirst \/ AskNext \/ PageUsedUp \/ FetchPage \/ FetchRaises \/ StopAsking
  <2>1. PagingIInv'
    BY <1>2, AskFirstKeeps, AskNextKeeps, PageUsedUpKeeps, FetchPageKeeps, EndingKeeps
  <2>2. pagingPc' # "holding"
    BY <1>2 DEF AskFirst, AskNext, PageUsedUp, FetchPage, FetchRaises, StopAsking,
       PagingGoto
  <2> QED
    BY <2>1, <2>2 DEF OrderedStep
<1>3. CASE PackCreated \/ PackDeleted
  <2>1. pagingPc' = pagingPc
    BY <1>3 DEF PackCreated, PackDeleted
  <2> QED
    BY <1>3, <2>1, ServerKeeps DEF OrderedStep
<1>4. CASE UNCHANGED pagingVars
  BY <1>4 DEF pagingVars, PagingIInv, PagingTypeOK, NothingYet, InOrder, NothingMissed,
     LastingPacksGiven
<1> QED
  BY <1>1, <1>2, <1>3, <1>4 DEF PagingNext, PagingStep

LEMMA PagingInvariant == PagingSpec => []PagingIInv
  BY PagingInitInv, PagingStepInv, PTL DEF PagingSpec

(* For any packs, pages and changes on the server: a loop that ends by     *)
(* itself has seen every pack that was there throughout.                   *)
THEOREM NoLastingPackMissed == PagingSpec => []LastingPacksGiven
<1>1. PagingIInv => LastingPacksGiven
  BY DEF PagingIInv
<1> QED
  BY <1>1, PagingInvariant, PTL

(* ... and no loop sees a pack twice or out of the server's order.         *)
THEOREM PacksComeInOrder == PagingSpec => PacksInOrder
<1>1. PagingIInv /\ [PagingNext]_pagingVars => [OrderedStep]_pagingVars
  BY PagingStepInv
<1> QED
  BY <1>1, PagingInvariant, PTL DEF PagingSpec, PacksInOrder, OrderedStep

-----------------------------------------------------------------------------
(* UsersAsCsv.  A generator may be older than the block the caller is in,  *)
(* so that what it has taken is compared with the server's file and not    *)
(* with the one on the disk, which may be half written.                    *)

(* Only a complete file is read.                                           *)
ReadsComplete ==
  /\ reader = "open" => csvPc = "inside"
  /\ csvPc = "inside" => written = Len(rows)

(* What a generator gives are the first rows, which are good ones.         *)
TakenAreGood == taken <= Len(rows) /\ \A i \in 1..taken : rows[i] = "good"

EndedIsOver == generator # "over" => ended = "none"

CsvIInv ==
  /\ CsvTypeOK
  /\ OnlyOwnDirectory
  /\ ReadsComplete
  /\ TakenAreGood
  /\ EndedIsOver
  /\ QuietEndIsWhole

-----------------------------------------------------------------------------
LEMMA RowListFacts ==
  ASSUME NEW r \in RowLists
  PROVE  Len(r) \in Nat /\ \A i \in 1..Len(r) : r[i] \in {"good", "bad"}
<1>1. PICK n \in 0..MaxRows : r \in [1..n -> {"good", "bad"}]
  BY DEF RowLists
<1>2. n \in Nat /\ Len(r) = n
  BY <1>1, UsersAsCsvAssumption
<1> QED
  BY <1>1, <1>2

LEMMA CsvInitInv == CsvInit => CsvIInv
<1> SUFFICES ASSUME CsvInit PROVE CsvIInv
  OBVIOUS
<1>1. Len(rows) \in Nat
  BY RowListFacts DEF CsvInit
<1> QED
  BY <1>1 DEF CsvInit, CsvIInv, CsvTypeOK, OnlyOwnDirectory, ReadsComplete, TakenAreGood,
     EndedIsOver, QuietEndIsWhole

(* The block and its file; the generator, if any, only loses its reader.   *)
LEMMA BlockStepKeeps ==
  ASSUME CsvIInv,
         EnterBlock \/ WriteRow \/ GiveGenerator \/ DownloadRaises \/ LeaveBlock
  PROVE  CsvIInv'
<1> USE RowListFacts DEF CsvIInv, CsvTypeOK
<1>1. CASE EnterBlock
  BY <1>1 DEF EnterBlock, OnlyOwnDirectory, ReadsComplete, TakenAreGood, EndedIsOver,
     QuietEndIsWhole
<1>2. CASE WriteRow
  BY <1>2 DEF WriteRow, OnlyOwnDirectory, ReadsComplete, TakenAreGood, EndedIsOver,
     QuietEndIsWhole
<1>3. CASE GiveGenerator
  BY <1>3 DEF GiveGenerator, OnlyOwnDirectory, ReadsComplete, TakenAreGood, EndedIsOver,
     QuietEndIsWhole
<1>4. CASE DownloadRaises
  BY <1>4 DEF DownloadRaises, OnlyOwnDirectory, ReadsComplete, TakenAreGood, EndedIsOver,
     QuietEndIsWhole
<1>5. CASE LeaveBlock
  BY <1>5 DEF LeaveBlock, OnlyOwnDirectory, ReadsComplete, TakenAreGood, EndedIsOver,
     QuietEndIsWhole
<1> QED
  BY <1>1, <1>2, <1>3, <1>4, <1>5

(* The generator takes a row or ends; the block is left alone.             *)
LEMMA GeneratorStepKeeps ==
  ASSUME CsvIInv, TakeRow \/ RowRaises \/ NoMoreRows \/ TakeFromClosed
  PROVE  CsvIInv'
<1> USE RowListFacts DEF CsvIInv, CsvTypeOK
<1>1. UNCHANGED <<csvPc, rows, blocks, onDisk, written, reader>>
  BY DEF TakeRow, RowRaises, NoMoreRows, TakeFromClosed, GeneratorEnds
<1>2. OnlyOwnDirectory' /\ ReadsComplete'
  BY <1>1 DEF OnlyOwnDirectory, ReadsComplete
<1>3. CASE TakeRow
  <2>1. reader = "open" /\ taken < Len(rows) /\ rows[taken + 1] = "good"
        /\ taken' = taken + 1 /\ generator = "live"
        /\ UNCHANGED <<generator, ended>>
    BY <1>3 DEF TakeRow, ReadsComplete
  <2>2. taken' \in Nat /\ taken' <= Len(rows) /\ ended' = "none"
    BY <2>1 DEF EndedIsOver
  <2>3. \A i \in 1..taken' : i \in 1..taken \/ i = taken + 1
    BY <2>1
  <2>4. TakenAreGood'
    BY <1>1, <2>1, <2>2, <2>3 DEF TakenAreGood
  <2>5. CsvTypeOK' /\ EndedIsOver' /\ QuietEndIsWhole'
    BY <1>1, <2>1, <2>2 DEF EndedIsOver, QuietEndIsWhole
  <2> QED
    BY <1>2, <2>4, <2>5
<1>4. CASE RowRaises \/ NoMoreRows \/ TakeFromClosed
  <2>1. generator' = "over" /\ taken' = taken
        /\ ended' \in {"StopIteration", "ValidationError", "ValueError"}
        /\ (ended' = "StopIteration" => reader = "open" /\ taken = written)
    BY <1>4 DEF RowRaises, NoMoreRows, TakeFromClosed, GeneratorEnds
  <2>2. TakenAreGood' /\ EndedIsOver'
    BY <1>1, <2>1 DEF TakenAreGood, EndedIsOver
  <2>3. QuietEndIsWhole'
    BY <1>1, <2>1 DEF QuietEndIsWhole, TakenAreGood, ReadsComplete
  <2> QED
    BY <1>1, <1>2, <2>1, <2>2, <2>3
<1> QED
  BY <1>3, <1>4

LEMMA CsvStepInv == CsvIInv /\ [CsvNext]_csvVars => CsvIInv'
<1> SUFFICES ASSUME CsvIInv, [CsvNext]_csvVars PROVE CsvIInv'
  OBVIOUS
<1>1. CASE CsvNext
  BY <1>1, BlockStepKeeps, GeneratorStepKeeps DEF CsvNext
<1>2. CASE UNCHANGED csvVars
  BY <1>2 DEF csvVars, CsvIInv, CsvTypeOK, OnlyOwnDirectory, ReadsComplete, TakenAreGood,
     EndedIsOver, QuietEndIsWhole
<1> QED
  BY <1>1, <1>2

LEMMA CsvInvariant == CsvSpec => []CsvIInv
  BY CsvInitInv, CsvStepInv, PTL DEF CsvSpec

(* For any file, and however its download, its rows and its readers fail:  *)
(* a loop over the users that ends quietly has seen all of it.             *)
THEOREM QuietEndsAreWhole == CsvSpec => []QuietEndIsWhole
<1>1. CsvIInv => QuietEndIsWhole
  BY DEF CsvIInv
<1> QED
  BY <1>1, CsvInvariant, PTL

(* No block leaves its directory behind.                                   *)
THEOREM NoDirectoryLeft == CsvSpec => []OnlyOwnDirectory
<1>1. CsvIInv => OnlyOwnDirectory
  BY DEF CsvIInv
<1> QED
  BY <1>1, CsvInvariant, PTL

-----------------------------------------------------------------------------
(* FileBuffers.                                                            *)

(* A download that covers the buffer has written what it fetched, and all  *)
(* that the buffer held will be overwritten.                               *)
Copied ==
  Fetching /\ fits =>
    /\ Len(data) <= Len(file)
    /\ position = fetched
    /\ \A i \in 1..fetched : data[i] = file[i]

OpenIsEmpty == bufferPc = "opening" => fits

NothingExpectedYet == Fetching => expected = {}

(* A buffer that nothing has moved is read from its beginning.             *)
RewoundAtStart == bufferPc = "idle" /\ rewound => position = 0

BufferIInv ==
  /\ BufferTypeOK
  /\ Copied
  /\ OpenIsEmpty
  /\ NothingExpectedYet
  /\ RewoundAtStart
  /\ DownloadedWhole
  /\ UploadSentWhole
  /\ StickerSentWhole

-----------------------------------------------------------------------------
LEMMA EmptyFile == <<>> \in Contents /\ Len(<<>>) = 0
BY DEF Contents

(* Writing one chunk at a position no further than the end.                *)
LEMMA OverwriteOne ==
  ASSUME NEW old \in Contents, NEW at \in 0..Len(old), NEW c \in Chunks
  PROVE  LET new == Overwrite(old, at, <<c>>) IN
           /\ new \in Contents
           /\ at + 1 \in 0..Len(new)
           /\ new[at + 1] = c
           /\ \A i \in 1..at : new[i] = old[i]
           /\ Len(new) = IF at = Len(old) THEN at + 1 ELSE Len(old)
<1> DEFINE new == Overwrite(old, at, <<c>>)
           size == IF at = Len(old) THEN at + 1 ELSE Len(old)
<1>1. at \in Nat /\ Len(old) \in Nat /\ at <= Len(old) /\ size \in Nat
  BY DEF Contents
<1>2. DOMAIN old \union ((at + 1)..(at + Len(<<c>>))) = 1..size
  BY <1>1 DEF Contents
<1>3. new = [i \in 1..size |-> IF i = at + 1 THEN c ELSE old[i]]
  BY <1>1, <1>2 DEF Overwrite, Contents
<1> HIDE DEF new
<1>4. \A i \in 1..size : i # at + 1 => i \in 1..Len(old)
  BY <1>1
<1>5. new \in [1..size -> Chunks]
  BY <1>3, <1>4 DEF Contents
<1>6. new \in Contents /\ Len(new) = size
  BY <1>1, <1>5 DEF Contents
<1>7. \A i \in 1..size : new[i] = IF i = at + 1 THEN c ELSE old[i]
  BY <1>3
<1> QED BY <1>1, <1>6, <1>7 DEF new

(* Writing a whole file: where it covers what there is, it leaves the file.*)
LEMMA OverwriteAll ==
  ASSUME NEW old \in Contents, NEW at \in 0..Len(old), NEW all \in Contents
  PROVE  /\ Overwrite(old, at, all) \in Contents
         /\ at = 0 /\ Len(old) <= Len(all) => Overwrite(old, at, all) = all
<1> DEFINE new == Overwrite(old, at, all)
           size == IF at + Len(all) > Len(old) THEN at + Len(all) ELSE Len(old)
<1>1. /\ at \in Nat /\ Len(old) \in Nat /\ Len(all) \in Nat
      /\ at <= Len(old) /\ size \in Nat
  BY DEF Contents
<1>2. DOMAIN old \union ((at + 1)..(at + Len(all))) = 1..size
  BY <1>1 DEF Contents
<1>3. new = [i \in 1..size |->
               IF i \in (at + 1)..(at + Len(all)) THEN all[i - at] ELSE old[i]]
  BY <1>2 DEF Overwrite
<1> HIDE DEF new
<1>4. new \in [1..size -> Chunks]
  <2>1. ASSUME NEW i \in 1..size, i \in (at + 1)..(at + Len(all))
        PROVE  all[i - at] \in Chunks
    BY <1>1, <2>1 DEF Contents
  <2>2. ASSUME NEW i \in 1..size, i \notin (at + 1)..(at + Len(all))
        PROVE  old[i] \in Chunks
    <3>1. i \in 1..Len(old)
      BY <1>1, <2>2
    <3> QED BY <3>1 DEF Contents
  <2> QED BY <1>3, <2>1, <2>2
<1>5. new \in Contents
  <2>1. PICK n \in Nat : n = size
    BY <1>1
  <2>2. new \in [1..n -> Chunks]
    BY <1>4, <2>1
  <2> HIDE DEF size
  <2> QED BY <2>2 DEF Contents
<1>6. ASSUME at = 0, Len(old) <= Len(all)
      PROVE  new = all
  <2>1. at = 0 /\ size = Len(all)
    BY <1>1, <1>6
  <2>2. new = [i \in 1..Len(all) |-> all[i]]
    BY <1>1, <1>3, <2>1
  <2> QED BY <2>2 DEF Contents
<1> QED BY <1>5, <1>6 DEF new

-----------------------------------------------------------------------------
LEMMA BufferInitInv == BufferInit => BufferIInv
<1> SUFFICES ASSUME BufferInit
             PROVE  BufferIInv
  OBVIOUS
<1>1. BufferTypeOK
  <2>1. data \in Contents /\ Len(data) = 0 /\ file \in Contents /\ Len(file) = 0
    BY EmptyFile DEF BufferInit
  <2>2. position \in 0..Len(data) /\ fetched \in 0..Len(file)
    BY <2>1 DEF BufferInit
  <2> QED BY <2>1, <2>2 DEF BufferInit, BufferTypeOK
<1>2. Copied /\ OpenIsEmpty /\ NothingExpectedYet /\ RewoundAtStart
  BY DEF BufferInit, Copied, Fetching, OpenIsEmpty, NothingExpectedYet,
    RewoundAtStart
<1>3. DownloadedWhole /\ UploadSentWhole /\ StickerSentWhole
  BY DEF BufferInit, DownloadedWhole, UploadSentWhole, StickerSentWhole
<1> QED BY <1>1, <1>2, <1>3 DEF BufferIInv

(* Steps that send nothing.                                                *)
LEMMA RequestKept ==
  BufferIInv /\ UNCHANGED request => UploadSentWhole' /\ StickerSentWhole'
BY DEF BufferIInv, UploadSentWhole, StickerSentWhole

LEMMA CallerKeeps == BufferIInv /\ (TakeBuffer \/ Rewind) => BufferIInv'
<1> SUFFICES ASSUME BufferIInv, TakeBuffer \/ Rewind
             PROVE  BufferIInv'
  OBVIOUS
<1>1. UploadSentWhole' /\ StickerSentWhole'
  BY RequestKept DEF TakeBuffer, Rewind
<1>2. CASE TakeBuffer
  <2>1. data' \in Contents
    <3>1. OwnFiles \subseteq Contents
      BY FileBuffersAssumption DEF Contents
    <3> QED BY <1>2, <3>1, EmptyFile DEF TakeBuffer
  <2>2. position' \in 0..Len(data')
    BY <1>2, <2>1 DEF TakeBuffer, Contents
  <2> QED BY <1>1, <1>2, <2>1, <2>2 DEF TakeBuffer, BufferIInv, BufferTypeOK, Copied,
            Fetching, OpenIsEmpty, NothingExpectedYet, RewoundAtStart,
            DownloadedWhole
<1>3. CASE Rewind
  <2>1. 0 \in 0..Len(data)
    BY <1>3 DEF BufferIInv, BufferTypeOK, Contents
  <2> QED BY <1>1, <1>3, <2>1 DEF Rewind, BufferIInv, BufferTypeOK, Copied,
            Fetching, OpenIsEmpty, NothingExpectedYet, RewoundAtStart,
            DownloadedWhole
<1> QED BY <1>2, <1>3

LEMMA BeginningKeeps == BufferIInv /\ (DownloadFile \/ OpenFile) => BufferIInv'
<1> SUFFICES ASSUME BufferIInv, DownloadFile \/ OpenFile
             PROVE  BufferIInv'
  OBVIOUS
<1>1. UploadSentWhole' /\ StickerSentWhole'
  BY RequestKept DEF DownloadFile, OpenFile, StartFetching
<1>2. file' \in Contents
  BY FileBuffersAssumption DEF DownloadFile, OpenFile, StartFetching, Contents
<1>3. /\ bufferPc' \in {"downloading", "opening"} /\ fetched' = 0 /\ expected' = {}
      /\ rewound' = rewound
  BY DEF DownloadFile, OpenFile, StartFetching
<1>4. /\ data' \in Contents /\ position' \in 0..Len(data') /\ fits' \in BOOLEAN
      /\ fits' => Len(data') <= Len(file') /\ position' = 0
      /\ bufferPc' = "opening" => fits'
  <2>1. CASE DownloadFile
    <3>1. data' = data /\ position' = position
      BY <2>1 DEF DownloadFile
    <3>2. data \in Contents /\ position \in 0..Len(data)
      BY DEF BufferIInv, BufferTypeOK
    <3>3. fits' = (position = 0 /\ Len(data) <= Len(file'))
      BY <2>1 DEF DownloadFile, Covers
    <3>4. bufferPc' = "downloading" /\ fits' \in BOOLEAN
      BY <2>1, <3>3 DEF DownloadFile, StartFetching
    <3> QED BY <3>1, <3>2, <3>3, <3>4
  <2>2. CASE OpenFile
    BY <1>2, <2>2 DEF OpenFile, Contents
  <2> QED BY <2>1, <2>2
<1>5. BufferTypeOK'
  <2>1. fetched' \in 0..Len(file')
    BY <1>2, <1>3 DEF Contents
  <2> QED BY <1>2, <1>3, <1>4, <2>1 DEF BufferIInv, BufferTypeOK
<1>6. Copied'
  BY <1>3, <1>4 DEF Copied
<1>7. OpenIsEmpty' /\ NothingExpectedYet' /\ RewoundAtStart' /\ DownloadedWhole'
  BY <1>3, <1>4 DEF OpenIsEmpty, NothingExpectedYet, RewoundAtStart, DownloadedWhole
<1> QED BY <1>1, <1>5, <1>6, <1>7 DEF BufferIInv

LEMMA WritingKeeps == BufferIInv /\ WriteFetched => BufferIInv'
<1> SUFFICES ASSUME BufferIInv, WriteFetched
             PROVE  BufferIInv'
  OBVIOUS
<1> DEFINE c == file[fetched + 1]
<1>1. /\ data \in Contents /\ position \in 0..Len(data)
      /\ fetched \in Nat /\ fetched + 1 \in 1..Len(file) /\ c \in Chunks
  BY DEF BufferIInv, BufferTypeOK, WriteFetched, Contents
<1>2. /\ data' \in Contents
      /\ position + 1 \in 0..Len(data')
      /\ data'[position + 1] = c
      /\ \A i \in 1..position : data'[i] = data[i]
      /\ Len(data') = IF position = Len(data) THEN position + 1 ELSE Len(data)
  <2>1. data' = Overwrite(data, position, <<c>>)
    BY DEF WriteFetched
  <2> HIDE DEF c
  <2> QED
    BY <1>1, <2>1, OverwriteOne
<1>3. BufferTypeOK'
  BY <1>1, <1>2 DEF BufferIInv, BufferTypeOK, WriteFetched
<1>4. Copied'
  <2> SUFFICES ASSUME Fetching', fits'
               PROVE  /\ Len(data') <= Len(file')
                      /\ position' = fetched'
                      /\ \A i \in 1..fetched' : data'[i] = file'[i]
    BY DEF Copied
  <2>1. /\ Len(data) <= Len(file) /\ position = fetched
        /\ \A i \in 1..fetched : data[i] = file[i]
    BY DEF Copied, WriteFetched, BufferIInv
  <2>2. ASSUME NEW i \in 1..(fetched + 1)
        PROVE  data'[i] = file[i]
    <3>1. CASE i = fetched + 1
      BY <1>2, <2>1, <3>1
    <3>2. CASE i \in 1..fetched
      BY <1>2, <2>1, <3>2
    <3> QED BY <1>1, <3>1, <3>2
  <2> QED BY <1>2, <2>1, <2>2 DEF WriteFetched
<1>5. UploadSentWhole' /\ StickerSentWhole'
  BY RequestKept DEF WriteFetched
<1> QED BY <1>3, <1>4, <1>5 DEF WriteFetched, Fetching, BufferIInv, OpenIsEmpty, NothingExpectedYet,
          RewoundAtStart, DownloadedWhole

LEMMA FetchEndingKeeps ==
  BufferIInv /\ (DownloadBreaks \/ OpenBreaks \/ DownloadEnds) => BufferIInv'
<1> SUFFICES ASSUME BufferIInv, DownloadBreaks \/ OpenBreaks \/ DownloadEnds
             PROVE  BufferIInv'
  OBVIOUS
<1>1. UploadSentWhole' /\ StickerSentWhole'
  BY RequestKept DEF DownloadBreaks, OpenBreaks, DownloadEnds, FetchReturns
<1>2. CASE DownloadBreaks
  <2>1. expected = {}
    BY <1>2 DEF DownloadBreaks, BufferIInv, NothingExpectedYet, Fetching
  <2> QED BY <1>1, <1>2, <2>1 DEF DownloadBreaks, BufferIInv, BufferTypeOK, Copied,
            Fetching, OpenIsEmpty, NothingExpectedYet, RewoundAtStart,
            DownloadedWhole
<1>3. CASE OpenBreaks
  <2>1. expected = {}
    BY <1>3 DEF OpenBreaks, BufferIInv, NothingExpectedYet, Fetching
  <2>2. data' \in Contents /\ position' \in 0..Len(data')
    BY <1>3 DEF OpenBreaks, Contents
  <2> QED BY <1>1, <1>3, <2>1, <2>2 DEF OpenBreaks, BufferIInv, BufferTypeOK, Copied,
            Fetching, OpenIsEmpty, NothingExpectedYet, RewoundAtStart,
            DownloadedWhole
<1>4. CASE DownloadEnds
  <2>1. fits => data = file
    <3> SUFFICES ASSUME fits
                 PROVE  data = file
      OBVIOUS
    <3>1. /\ data \in Contents /\ file \in Contents
          /\ position = Len(file) /\ position \in 0..Len(data) /\ Len(data) <= Len(file)
          /\ \A i \in 1..Len(file) : data[i] = file[i]
      BY <1>4 DEF DownloadEnds, FetchReturns, BufferIInv, BufferTypeOK, Copied
    <3> QED BY <3>1 DEF Contents
  <2> QED BY <1>1, <1>4, <2>1 DEF DownloadEnds, FetchReturns, BufferIInv,
            BufferTypeOK, Copied, Fetching, OpenIsEmpty, NothingExpectedYet, RewoundAtStart,
            DownloadedWhole, Contents
<1> QED BY <1>2, <1>3, <1>4

LEMMA StickerKeeps == BufferIInv /\ DownloadSticker => BufferIInv'
<1> SUFFICES ASSUME BufferIInv, DownloadSticker
             PROVE  BufferIInv'
  OBVIOUS
<1>1. data \in Contents /\ position \in 0..Len(data) /\ file' \in Contents
  BY FileBuffersAssumption DEF BufferIInv, BufferTypeOK, DownloadSticker, Contents
<1>2. data' \in Contents /\ (Covers(file') => data' = file')
  BY <1>1, OverwriteAll DEF DownloadSticker, Covers
<1> QED
  BY <1>1, <1>2, RequestKept DEF DownloadSticker, BufferIInv, BufferTypeOK, Copied,
    Fetching, OpenIsEmpty, NothingExpectedYet, RewoundAtStart, DownloadedWhole,
    Contents

(* What is read from the beginning is all there is.                        *)
LEMMA ReadFromStart == data \in Contents => ReadOn(0) = data
<1> SUFFICES ASSUME data \in Contents
             PROVE  ReadOn(0) = data
  OBVIOUS
<1>1. Len(data) \in Nat /\ DOMAIN data = 1..Len(data)
  BY DEF Contents
<1>2. ReadOn(0) = [i \in 1..Len(data) |-> data[i]]
  BY <1>1 DEF ReadOn
<1> QED BY <1>1, <1>2 DEF Contents

LEMMA ReadingKeeps ==
  BufferIInv /\ (Upload \/ AddSticker \/ RefuseSticker) => BufferIInv'
<1> SUFFICES ASSUME BufferIInv, Upload \/ AddSticker \/ RefuseSticker
             PROVE  BufferIInv'
  OBVIOUS
<1>1. /\ data \in Contents /\ Len(data) \in Nat
      /\ bufferPc = "idle" /\ bufferPc' = "idle" /\ data' = data
      /\ position' \in {0, Len(data)} /\ rewound' \in BOOLEAN
      /\ rewound' => position' = 0
      /\ UNCHANGED <<file, fetched, fits, expected>>
  <2>1. data \in Contents /\ Len(data) \in Nat
    BY DEF BufferIInv, BufferTypeOK, Contents
  <2>2. CASE Upload
    BY <2>1, <2>2 DEF Upload, ReadAndSend
  <2>3. CASE AddSticker
    BY <2>1, <2>3 DEF AddSticker, ReadAndSend
  <2>4. CASE RefuseSticker
    BY <2>1, <2>4 DEF RefuseSticker
  <2> QED BY <2>2, <2>3, <2>4
<1>2. ReadOn(0) = data
  BY <1>1, ReadFromStart
<1>3. UploadSentWhole' /\ StickerSentWhole'
  <2>1. CASE Upload
    <3>1. /\ request' = [by |-> "upload", error |-> "none",
                         content |-> ReadOn(position),
                         whole |-> data, rewound |-> rewound]
          /\ rewound => position = 0
      BY <1>1, <2>1 DEF Upload, ReadAndSend, BufferIInv, RewoundAtStart
    <3>2. /\ request'.by = "upload" /\ request'.content = ReadOn(position)
          /\ request'.whole = data /\ request'.rewound = rewound
      BY <3>1
    <3>3. rewound => request'.content = request'.whole
      BY <1>2, <3>1, <3>2
    <3> QED BY <3>2, <3>3 DEF UploadSentWhole, StickerSentWhole
  <2>2. CASE AddSticker
    <3>1. request' = [by |-> "add_sticker", error |-> "none", content |-> ReadOn(0),
                      whole |-> data, rewound |-> rewound]
      BY <2>2 DEF AddSticker, ReadAndSend
    <3>2. request'.by = "add_sticker" /\ request'.content = request'.whole
      BY <1>2, <3>1
    <3> QED BY <3>2 DEF UploadSentWhole, StickerSentWhole
  <2>3. CASE RefuseSticker
    <3>1. request'.by = "add_sticker" /\ request'.error # "none"
      BY <2>3 DEF RefuseSticker
    <3> QED BY <3>1 DEF UploadSentWhole, StickerSentWhole
  <2> QED BY <2>1, <2>2, <2>3
<1>4. BufferTypeOK'
  BY <1>1 DEF BufferIInv, BufferTypeOK
<1>5. DownloadedWhole'
  BY <1>1 DEF BufferIInv, DownloadedWhole
<1> QED BY <1>1, <1>3, <1>4, <1>5 DEF BufferIInv, Copied, Fetching, OpenIsEmpty,
          NothingExpectedYet, RewoundAtStart

LEMMA BufferStepInv == BufferIInv /\ [BufferNext]_bufferVars => BufferIInv'
<1> SUFFICES ASSUME BufferIInv, [BufferNext]_bufferVars
             PROVE  BufferIInv'
  OBVIOUS
<1>1. CASE BufferNext
  BY <1>1, CallerKeeps, BeginningKeeps, WritingKeeps, FetchEndingKeeps, StickerKeeps,
    ReadingKeeps DEF BufferNext
<1>2. CASE UNCHANGED bufferVars
  BY <1>2 DEF bufferVars, BufferIInv, BufferTypeOK, Copied, Fetching, OpenIsEmpty,
    NothingExpectedYet, RewoundAtStart, DownloadedWhole, UploadSentWhole,
    StickerSentWhole
<1> QED BY <1>1, <1>2

LEMMA BufferInvariant == BufferSpec => []BufferIInv
BY BufferInitInv, BufferStepInv, PTL DEF BufferSpec

(* A download that returns has left exactly the file in a buffer that it   *)
(* covers: an empty one, one rewound for another try after a download that *)
(* broke, and the temporary file of FileBase.open, of any length and       *)
(* whatever happened to buffers before.                                    *)
THEOREM DownloadsAreWhole == BufferSpec => []DownloadedWhole
<1>1. BufferIInv => DownloadedWhole
  BY DEF BufferIInv
<1> QED BY <1>1, BufferInvariant, PTL

(* A buffer as opened, downloaded into or rewound is uploaded whole, and   *)
(* add_sticker sends whole images wherever the buffer was.                 *)
THEOREM SentFilesAreWhole == BufferSpec => []SentFileIsWhole
<1>1. BufferIInv => SentFileIsWhole
  BY DEF BufferIInv, SentFileIsWhole
<1> QED BY <1>1, BufferInvariant, PTL
=============================================================================
