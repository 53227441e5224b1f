---------------------------- MODULE PersonalChat ----------------------------
(***************************************************************************)
(* HTTPClient.ensure_personal_chat: look for the chat of a bot with a      *)
(* user, create it when there is none, then read it.  The three are calls  *)
(* of their own, each of which may raise; other threads, and the user,     *)
(* act between them.                                                       *)
(*   pybotx/client/client.py                    ensure_personal_chat       *)
(*   pybotx/client/chats_api/personal_chat.py, create_chat.py, chat_info.py*)
(* One bot and one user.  The chats the server keeps are external: it may  *)
(* or may not answer a second creation with the chat there is, and it may  *)
(* carry a creation out after its sender's wait has timed out.             *)
(***************************************************************************)
EXTENDS Naturals, FiniteSets

CONSTANTS
  ChatThreads,  \* threads of the application that call ensure_personal_chat
  User,         \* the user, who may open the chat from the other side
  ChatIds,      \* identifiers the server gives to chats, each used once
  NoChat

ASSUME PersonalChatAssumption ==
  /\ User \notin ChatThreads
  /\ NoChat \notin ChatIds \union ChatThreads \union {User}

VARIABLES
  chatPc,       \* chatPc[t]: the call thread t is in
  chats,        \* the personal chats the server keeps
  maker,        \* maker[c]: who asked for chat c, NoChat if nobody did yet
  abroad,       \* chats whose creation was given up and is still on its way
  late,         \* chats there that were made after being given up (history)
  steady,       \* steady[t]: chats kept ever since t's call began (history)
  found,        \* found[t]: the chat t is to read, or has got
  chatOutcome   \* chatOutcome[t]: "ok", what was raised, or "none" in a call

delayed == <<abroad, late>>

chatVars == <<chatPc, chats, maker, delayed, steady, found, chatOutcome>>

ChatInit ==
  /\ chatPc = [t \in ChatThreads |-> "idle"]
  /\ chats = {}
  /\ maker = [c \in ChatIds |-> NoChat]
  /\ abroad = {}
  /\ late = {}
  /\ steady = [t \in ChatThreads |-> {}]
  /\ found = [t \in ChatThreads |-> NoChat]
  /\ chatOutcome = [t \in ChatThreads |-> "none"]

-----------------------------------------------------------------------------
ChatGoto(t, place) == chatPc' = [chatPc EXCEPT ![t] = place]

EndEnsure(t, result) ==
  /\ ChatGoto(t, "idle")
  /\ chatOutcome' = [chatOutcome EXCEPT ![t] = result]

EnsureChat(t) ==
  /\ chatPc[t] = "idle"
  /\ ChatGoto(t, "checking")
  /\ steady' = [steady EXCEPT ![t] = chats]
  /\ found' = [found EXCEPT ![t] = NoChat]
  /\ chatOutcome' = [chatOutcome EXCEPT ![t] = "none"]
  /\ UNCHANGED <<chats, maker, delayed>>

(* personal_chat returns one of the chats there are.                       *)
CheckFinds(t) ==
  /\ chatPc[t] = "checking"
  /\ \E c \in chats : found' = [found EXCEPT ![t] = c]
  /\ EndEnsure(t, "ok")
  /\ UNCHANGED <<chats, maker, delayed, steady>>

(* 404: personal_chat raises ChatNotFoundError, which is caught.           *)
CheckMisses(t) ==
  /\ chatPc[t] = "checking"
  /\ chats = {}
  /\ ChatGoto(t, "creating")
  /\ UNCHANGED <<chats, maker, delayed, steady, found, chatOutcome>>

(* Deliberate error: any exception of personal_chat is caught.             *)
CallRaisesCaught(t) ==
  /\ chatPc[t] \in {"checking", "creating", "reading"}
  /\ IF chatPc[t] = "checking"
     THEN ChatGoto(t, "creating") /\ UNCHANGED chatOutcome
     ELSE EndEnsure(t, "raised")
  /\ UNCHANGED <<chats, maker, delayed, steady, found>>

(* Any other exception of any of the three calls passes through.           *)
CallRaises(t) ==
  /\ chatPc[t] \in {"checking", "creating", "reading"}
  /\ EndEnsure(t, "raised")
  /\ UNCHANGED <<chats, maker, delayed, steady, found>>

MakeChat(c, who) ==
  /\ maker[c] = NoChat
  /\ chats' = chats \union {c}
  /\ maker' = [maker EXCEPT ![c] = who]
  /\ UNCHANGED delayed

(* create_chat returns the identifier of a new chat, or of the one there   *)
(* is.                                                                     *)
Create(t) ==
  /\ chatPc[t] = "creating"
  /\ \E c \in ChatIds :
       /\ MakeChat(c, t) \/ (c \in chats /\ UNCHANGED <<chats, maker, delayed>>)
       /\ found' = [found EXCEPT ![t] = c]
  /\ ChatGoto(t, "reading")
  /\ UNCHANGED <<steady, chatOutcome>>

(* Deliberate error: a creation whose answer is lost is tried again.       *)
CreateAgainWhenLost(t) ==
  /\ chatPc[t] = "creating"
  /\ \E c \in ChatIds : MakeChat(c, t)
  /\ UNCHANGED <<chatPc, steady, found, chatOutcome>>

(* The chat is made and the answer lost: BotXNetworkError; or the answer   *)
(* is not the expected model.                                              *)
CreateAnswerLost(t) ==
  /\ chatPc[t] = "creating"
  /\ \E c \in ChatIds : MakeChat(c, t)
  /\ EndEnsure(t, "raised")
  /\ UNCHANGED <<steady, found>>

(* The wait times out, which ends the call and not the request: that is    *)
(* still on its way.                                                       *)
CreateGivenUp(t) ==
  /\ chatPc[t] = "creating"
  /\ \E c \in ChatIds :
       /\ maker[c] = NoChat
       /\ maker' = [maker EXCEPT ![c] = t]
       /\ abroad' = abroad \union {c}
  /\ EndEnsure(t, "raised")
  /\ UNCHANGED <<chats, late, steady, found>>

(* ... and carried out at any later time, or never (external).             *)
CarriedOutLate ==
  /\ \E c \in abroad :
       /\ abroad' = abroad \ {c}
       /\ chats' = chats \union {c}
       /\ late' = late \union {c}
  /\ UNCHANGED <<chatPc, maker, steady, found, chatOutcome>>

(* chat_info returns the chat, or answers 404 for one deleted meanwhile,   *)
(* which nobody catches here.                                              *)
ReadChat(t) ==
  /\ chatPc[t] = "reading"
  /\ EndEnsure(t, IF found[t] \in chats THEN "ok" ELSE "ChatNotFoundError")
  /\ UNCHANGED <<chats, maker, delayed, steady, found>>

(* The user opens the chat; a chat is deleted, by whomever (external).     *)
UserOpensChat ==
  /\ chats = {}
  /\ \E c \in ChatIds : MakeChat(c, User)
  /\ UNCHANGED <<chatPc, steady, found, chatOutcome>>

DeleteChat ==
  /\ \E c \in chats :
       /\ chats' = chats \ {c}
       /\ late' = late \ {c}
       /\ steady' = [t \in ChatThreads |-> steady[t] \ {c}]
  /\ UNCHANGED <<chatPc, maker, abroad, found, chatOutcome>>

EnsureStep(t) ==
  \/ CheckFinds(t)
  \/ CheckMisses(t)
  \/ CallRaises(t)
  \/ Create(t)
  \/ CreateAnswerLost(t)
  \/ CreateGivenUp(t)
  \/ ReadChat(t)

ChatNext ==
  \/ \E t \in ChatThreads : EnsureChat(t) \/ EnsureStep(t)
  \/ CarriedOutLate
  \/ UserOpensChat
  \/ DeleteChat

ChatSpec == ChatInit /\ [][ChatNext]_chatVars
-----------------------------------------------------------------------------
ChatTypeOK ==
  /\ chatPc \in [ChatThreads -> {"idle", "checking", "creating", "reading"}]
  /\ chats \in SUBSET ChatIds
  /\ maker \in [ChatIds -> ChatThreads \union {User, NoChat}]
  /\ abroad \in SUBSET ChatIds
  /\ late \in SUBSET chats
  /\ steady \in [ChatThreads -> SUBSET ChatIds]
  /\ found \in [ChatThreads -> ChatIds \union {NoChat}]
  /\ chatOutcome \in [ChatThreads -> {"none", "ok", "raised", "ChatNotFoundError"}]

(* A call of ensure_personal_chat goes on to create a chat only if at some *)
(* moment since it began there was none: no call asks for the double of a  *)
(* chat that has been there all along, whatever error its lookup meets.    *)
NoNeedlessChat ==
  \A t \in ChatThreads :
    chatPc[t] \in {"creating", "reading"} => steady[t] = {}

(* A thread that calls again after an exception finds the chat that its    *)
(* last call made, if that was made before the exception: only the answer  *)
(* or the reading of it failed.  So threads which race cost at most one    *)
(* chat each, and what a thread has beyond that are creations which were   *)
(* carried out after it had given them up: those a second call can double. *)
OneChatPerMaker ==
  \A c, d \in chats \ late : maker[c] = maker[d] => c = d

=============================================================================
