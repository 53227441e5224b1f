# Verification of pybotx

pybotx is a synchronous Python library for bots of the eXpress messenger. A bot
is a WSGI application: BotX (the messenger's server) posts commands and callbacks
to it, and while it serves one it calls BotX back. This directory holds TLA+
models of the library, the TLC configurations that check them on small instances,
and TLAPS proofs of their most important properties for every instance.

All paths below are relative to `src/` unless they end in `.tla` or `.cfg`;
`pybotx/` is left out of most of them.

## 1. Inventory: the system and its parts

```
            commands, callbacks, /status                    API requests
   BotX ------------------------------> Falcon app  ---> use case (the bot's) ---> Client ---> BotX
                                        resources                                  BotXMethod
                                            |                                          |
                                            +-------- BotAccountsStorage --------------+
                                                 accounts, V1 token cache
```

Everything runs on the WSGI server's worker threads. Nothing in the library takes a
lock or starts a thread. What threads share is one `Client`, its
`BotAccountsStorage`, and the application's `urllib3.PoolManager`.

| Part | State it keeps | Operations | Talks to |
|---|---|---|---|
| Token cache (`bot/bot_accounts_storage.py`, `client/authorized_botx_method.py`, `client/get_token.py`, `auth.py`) | `_auth_tokens`, shared by all threads | get or miss, fetch, set; build a JWT | BotX's token service, over the pool |
| Calls to BotX (`client/botx_method.py`, `client/exceptions`) | none of its own; a connection of the pool during a request | build URL, request or stream, status handlers, read the model | the pool, BotX |
| API methods (`client/*_api`) | none | a payload, a table of status handlers, a response model each | `BotXMethod` |
| Verification (`bot/verification.py`) | none | `verify_request`, V1 and V2 | accounts of the storage |
| Webhook (`bot/app_factory.py`, `bot/resources`, `bot/command.py`, `bot/callback.py`) | handlers registered at start | `POST /command`, `POST /notification/callback`, `GET /status` | verification, the use cases |
| Incoming messages (`models/message/incoming_message.py`, `models/attachments.py`, `models/system_events/event_edit.py`, `logger.py`) | none | log, validate, convert to domain | the command resource |
| Outgoing messages (`models/message/*`, `client/notifications_api/direct_notification.py`, `client/events_api/*`, `models/api_base.py`) | none; BotX keeps the messages | build a payload, embed mentions, clean it of `Undefined` | `BotXMethod` |
| Personal chats, sticker paging, CSV of users, file downloads (`client/client.py`) | what the caller holds between several calls: a found chat, a page and its cursor, an open file | several API calls in a row | the methods |
| System events (`models/system_events`, `bot/command.py`, `models/base_command.py`) | none | one class per event; the union tries them in turn | the command resource |
| SmartApps, files (`models/files.py`, `models/sync_smartapp_event.py`, `client/smartapps_api`) | none | files to domain objects and back; events and answers cleaned of `Undefined` | the resources, the methods |
| Status menu, enums, users, chats | none | conversions field by field | the resources, the methods |
| Buffers (`client/files_api`, `client/smartapps_api/upload_file.py`, `models/files.py`, `models/stickers.py`, `image_validators.py`, `buffer.py`) | the caller's buffer: content and position | download, open, upload, add a sticker | the methods |
| Markups (`models/message/markup.py`) | a list of rows of buttons, the caller's own if one was given | build, add a button, add a row | outgoing messages |
| `src/example`, `src/tests`, `src/scripts` | - | example, tests | - |

External to the library, modelled as far as it depends on them: urllib3's pool,
the WSGI server and Falcon, PyJWT, pydantic, the BotX server, the bot's use cases.

### What is hard, and what makes each part correct

`PROJECT.json` lists every hazard with its line and the properties that cover it.
The groups are these.

* **Interleaving of threads** around an unlocked cache: who fetches, who overwrites
  whom, and what a token that dies afterwards does. Correct: bots never share
  credentials, redundant fetches are bounded, racing alone never makes a call fail.
* **A bounded resource on every exit path**: a blocking pool survives only if each
  refused, broken or abandoned request gives its connection back, and if no thread
  holds one connection while it waits for another.
* **Retries of what may have been done**: the pool repeats requests on its own;
  a message must not be sent twice.
* **Failure in the middle**: a stream that breaks, a handler that reads a body that
  is no JSON, a use case that raises after the request was accepted.
* **Unverified data that chooses how it is verified**: the token's own claims pick
  the version, the account and hence the secret.
* **Time**: a token that was good when sent expires while the request waits.
* **Lenient conversion**: new kinds of attachments and entities must cost nothing,
  and what is known must keep its place.
* **Edits**: absent, empty and given are three things; text and mentions are kept
  in separate fields and must change together.
* **Checks and actions over several calls**: a chat that was absent when it was looked
  up may exist when it is created; packs come and go between two pages; a generator
  outlives the file it reads.
* **Values of a newer server**: some enumerations are read leniently, others refuse the
  whole command. Correct: what the code means to tolerate costs nothing else.
* **Objects that outlive a call**: a buffer keeps what the last call left in it, and its
  position; a markup keeps the lists and rows it is given. Correct: what the library
  itself writes, rewinds or makes is whole and shared with nobody.
* **Conversions there and back**: a file that is received, sent on and received again
  must lose nothing, and an empty or zero value is not a missing one.

## 2. Modules

Each row says what a module is of, and what in it stands for what in the code. The
exact lines are in `PROJECT.json`, "map".

| Module | Models | State and actions |
|---|---|---|
| `LazyToken` | abstract: a register per bot that is empty until somebody initialises it | `Miss` makes a thread an initialiser, who then may `Fill` once or `GiveUp`; never emptied again |
| `TokenCache` | `_add_authorization_headers` and what it calls, by any number of threads | `cache` is `_auth_tokens`, `pc`/`held` the progress and the local `token` of a thread's call; one action per step between two points where another thread may run: `BeginCall` (`_build_url` looks the account up), `ReadCache` or `BuildJwt`, `FetchToken`/`FetchFails`, `SetToken`, `CallApi`. `issued`, `alive`, `Revoke`: the server |
| `Answers` | `_raise_for_status`, the status handlers, `_verify_and_extract_api_model` | operators from method and answer to `"ok"` or an exception |
| `ApiMethods` | the API methods' handlers and models | a record per class: verb, handlers, model |
| `BotXCall` | `execute` from URL to outcome, for plain and streamed methods; composes `Answers` with the pool | `leased` is the pool, `exchange` tells the token request from the API request, `received` counts what reached the server, `buffer` is the caller's file object |
| `Verification` | `verify_request` | operators over a token's claims, in the code's order of checks |
| `Webhook` | the three resources under worker threads; composes `Verification` | `pc` follows a request through `ReadMedia` (with the log line), `VerifyRequest`, `Parse`, `Dispatch`, `UseCaseEnds`, `Send`; `TokenExpires` while it is queued |
| `RemoteCall` | abstract: what a call promises, with no pool, tokens or steps of a transport | a call takes effect at most as often as its verb allows and has one outcome |
| `IncomingMessage` | a command of any kind, from log line to domain object: the union of the message and 15 events tried class after class, then the conversion of attachments and entities | `stage` is where the code is, `next` the item of the loop; `message` holds positions in the command's lists instead of converted objects |
| `PersonalChat` | `ensure_personal_chat` by any number of threads | `chatPc` is the call a thread is in: look up, create, read; the chats on the server, the user who opens one, deletions are external. `CreateGivenUp` ends a call whose request is still on its way (`abroad`), `CarriedOutLate` is the server carrying it out |
| `StickerPaging` | `iterate_by_sticker_packs` | the generator's `page` and `after`, one action per suspension point and request; packs created and deleted in between are external |
| `UsersAsCsv` | `users_as_csv` and its generator | the block (`csvPc`), the temporary directories, the file's reader, the generator that outlives them |
| `SmartApps` | `models/files.py`, synchronous answers, smartapp events; uses `Payloads` | `held` are files as domain objects, `wire` the last JSON; files are received, sent and received again |
| `FileBuffers` | the buffers callers hand over: `download_file`, `File.open`, `Sticker.download`, `upload_file`, `upload_static_file`, `add_sticker` with its image checks, over any sequence of calls | `data` and `position` of the buffer; a download writes chunk by chunk and may break, the other calls touch the buffer at one point only; `fits` says that a download began where it covers what is there |
| `MarkupRows` | how markups are built: lists and rows are objects, a given one is kept | `rowsIn`, `buttonsIn` are the heap, `listOf` the list of a markup; a list or row the library makes is named after its markup or its first button. `shared` are the rows a caller has made, or has taken from one markup, by iterating over it, for another |
| `ClientOperations` | composes the six above: an application uses one of them | `operation` names it |
| `Payloads` | `_remove_undefined` | `Cleaned` is one call, given what the calls for the parts return; `RemoveUndefined` nests it six deep, as deep as the options of a button are |
| `EmbedMentions` | `build_embed_mention`, `find_and_replace_embed_mentions` | operators over texts as sequences of fragments |
| `OutgoingMessage` | `send_message`, `reply_message`, `edit_message`; composes the two above | `Compose` runs arguments to JSON, `Post` is BotX taking it, in any order between threads, `Refuse` a failure that leaves nothing; a request given up (`GiveUp`) may still be taken at any later time (`PostLate`); `messages` is what BotX keeps |
| `TokenCacheProofs`, `BotXCallProofs`, `WebhookProofs`, `IncomingMessageProofs`, `OutgoingMessageProofs` | the theorems about the module each is named after, section 5 | |
| `PayloadsProofs` | lemmas about `Payloads`: induction, `Picked`, every level of the cleaning | |
| `ClientCallsProofs` | the theorems about `PersonalChat`, `StickerPaging`, `UsersAsCsv`, `FileBuffers` | |
| `ClientOperationsProofs` | those about `MarkupRows` and `SmartApps`, and about the client that composes all six | |
| `MC...` | constants for TLC | |

Definitions headed *Deliberate error* are the code's operations with a plausible
bug. No behaviour specification uses them; each shows that a property would notice.

Choices of abstraction that matter:

* **Steps.** Python threads can switch between any two bytecodes; between two
  accesses to shared state only their own locals change, so one access is one step.
* **Credentials** are numbers per bot and server, not strings; a V2 JWT is number 0.
  How long a JWT lives is not in `TokenCache`.
* **Requests that outlive their calls.** A wait that times out ends the call and not its
  request, which the server may carry out at any later time or never. `PersonalChat` and
  `OutgoingMessage` keep such requests, for there it matters when they come: a chat made
  late doubles one that was missed, an edit made late undoes a newer one. In `BotXCall`
  and `RemoteCall` a late receipt is counted as one before the call ended, since their
  properties count receipts and do not say when; in `TokenCache` a token issued late is
  at most another reason for the server to drop the one in use (`Revoke`).
* **Answers** are a status and a body by what the code tells apart of it: complete,
  without result, an empty list, a known reason, no JSON, not even text.
* **Tokens of incoming requests** are records of their claims, of who signed them
  and of whether their times hold. PyJWT checks signatures; that is assumed.
* **Texts** are sequences of fragments: plain text, tags, placeholders, and the
  torn, unterminated or malformed tags the regular expression does not match as
  one would wish.

## 3. Runs

All properties are stated, with a comment, in the module of their component.

| Run (cfg) | Instance | Shows |
|---|---|---|
| `token_race` (`MCTokenCache`) | 2 threads; bot `a`, whose server retires old tokens and revokes; bot `b`, whose server keeps them; bot `c` with JWTs; an unknown bot; 2 tokens a bot | types, `OwnCredential`, `FetchedOncePerThread`; `DeadTokenStaysDead`; `NoSpurious401` (of `b` and `c`); the calls implement `LazyToken` |
| `call_table` (`MCBotXCall_table`) | 1 thread, 1 retry, streams of 2 chunks; all 52 methods, of which 29 differ in what the model keeps; 11 statuses x every body | `BadAccountReported`, `DeletedFileRaises`, `ResultsAreReal`, `CallsEnd` |
| `call_pool` (`MCBotXCall_pool`) | 2 threads, 1 connection, 1 retry; a POST, a DELETE, a stream | types, `ConnectionsReturned`, `PostedOnce`, `PoolNeverStalls`; the calls implement `RemoteCall` |
| `call_errors` | 1 thread, 1 connection | **violated**: all errors inherit from `BaseClientError` |
| `web_tokens` | 2 threads, 2 bots on one host, a bot without account; every combination of claims, audience, signer; every body; tokens that expire while the request waits; another thread serves a good command meanwhile | types, `RunsAreEntitled`, `AnswersTellTheTruth`, `ProperRequestServed`; `RequestsAnswered` |
| `web_stranger` | 1 thread | **violated**: a request that fails verification is a 401 |
| `message_parts` (`MCIncomingMessage`) | each kind of item alone, pairs of attachments, triples of entities, messages and edits; every other event, in every protocol version, new in each of its places; DEBUG logging on and off | `MessageIsFaithful`, `EditIsWhole`, `UnknownIsTolerated`, `RefusalTellsWhy` |
| `message_empty` | triples of entities | **violated**: "Mention data can be an empty dict" |
| `message_logged` | as `message_parts` | **violated**: an unknown attachment is tolerated, so every message reaches its conversion |
| `edits` (`MCOutgoingMessage`) | 2 threads, 3 calls, any of them given up and taken late or never; texts with equal mentions, with tags torn or left open, with what cannot be sent; no markup, metadata and file, empty ones, and full ones | `MentionsMatchText`, `TextReadsAsWritten`, `PostedIsJson`, `EditChangesWhatIsGiven` |
| `client` (`MCClientOperations`) | 2 threads, 3 chat ids; 5 packs in pages of 2; files of 3 rows, 2 blocks; lists of up to 2 files of every type; downloads of 1 and 2 chunks; 2 markups, 2 rows and a list of the caller | `NoNeedlessChat`, `OneChatPerMaker`; `LastingPacksGiven`, `PacksInOrder`, `LoopEnds`; `OnlyOwnDirectory`, `QuietEndIsWhole`; `FilesSurvive`, `SentWhole`; `DownloadedWhole`, `SentFileIsWhole`; `NoForeignButtons` |
| `sticker_again` | as `client` | **violated**: who is told "Passed file is not PNG" has passed none |

### Bounds, and why they suffice

* *Threads.* Two threads meet in every pair of steps of the unlocked section. The
  safety properties of the token cache, of calls and of the webhook are proved for
  any number.
* *`MaxIssued`*: two tokens a bot are needed for one to be stale; a thread whose bot
  has used them up fails its fetch. Theorems: for every `MaxIssued`.
* *Three bots* in one cache differ in what matters: tokens that die, tokens that stay,
  and JWTs, which never enter the cache.
* *`PoolSize`* 1 with 2 threads is the smallest pool that makes a thread wait.
  *`Retries`* 1 is one repetition too many for a POST (urllib3's default is 3; the
  theorems hold for any). *`FileSize`*: two chunks break before, between or after.
  `received` needs no bound, for retries bound it.
* *Two bots on one host* is the dangerous case of verification: host and audience
  alone do not tell them apart, only the bot id and the secret do.
* *`VerifyRequests`* is on in the runs, for `RunsAreEntitled` and `ProperRequestServed`
  speak of verified requests only. That types and `AnswersTellTheTruth` hold without
  verification too is proved.
* *Lists of two or three items*: an unknown item before, between and after known ones;
  the first attachment and one that is not; the last of two replies.
* *`Bodies`* of the texts: equal tags before, after and around others, each kind of fragment
  that the expression does not match before a tag that it must still find. *`Extras`* go
  together (nothing, all empty, all filled), for each comes to a field of its own.
* *Depth* of a payload is six, by the code's own models. What a bot puts into metadata
  or options is assumed to be JSON of no more than that (`IsJson4`, `IsJson5`).
* *`MaxCalls`* 3: a send and two edits by two threads is the shortest way to put a
  text of one edit with mentions of another. The theorems of section 5 hold for any
  texts, extras, threads and `MaxCalls`. Threads are symmetric there, as no
  temporal property but a step property is checked.
* *`client`*: two threads race for one chat; three chat identifiers are one that a thread
  makes in time, one of its that comes late, and one of the other's or the user's, so
  that each kind can be doubled by each other; five packs in pages of two are three pages; three
  rows are a bad one before, between and after good ones, two blocks are one entered
  after another was left. The six optional fields of a file vary in two groups, each
  absent, null, zero or empty, and filled; a file comes alone or before a plain one.
  A remote file of two chunks and one of one show a short file written over a long one;
  `MaxData` ends the growth of a buffer that is appended to. Two markups and two
  buttons are enough for one to see the other's.

Deadlock is checked in every run but those of `IncomingMessage`, which is one
conversion and ends, of `OutgoingMessage`, where `MaxCalls` ends the run, and of
`ClientOperations`, where a caller is through after its last block, chat or button.

### Fairness

Weak fairness of a thread's steps inside a call or a request, never of starting one,
and never of one step in particular, so a step that could fail may always fail:

* A thread that can run is scheduled by the operating system.
* An exchange with BotX ends. The library sets no timeouts: the pool is the
  application's, and the example's has them (`example/composite/bot.py:24-27`). Each wait
  for an answer, a chunk or a connection is then bounded, and ends in an answer or an
  error. With a bare `PoolManager()`, as in `README.md:62`, nothing bounds them, and
  no liveness is claimed.
* A use case ends. That is the bot's promise; the library cannot keep it, and until
  it does the worker is taken.
* A caller that iterates over sticker packs goes on asking or leaves the loop, and its
  calls return (`ClientFairSpec`, weak fairness of the iteration's steps as a whole).
  `LoopEnds` also rests on the server: a page has a cursor only if it has packs, the
  cursor is its last pack, and only finitely many packs are ever created. A server that
  repeats a cursor would keep the loop going; the code has no guard against one.

`CallsEnd` of `BotXCall` is claimed for a thread with a connection of its own only:
with a pool that is too small, urllib3 does not queue fairly and weak fairness
promises one thread nothing. There the claim is `PoolNeverStalls`.

## 4. Disagreements between the code and what is said of it

1. `call_errors`: `README.md:227` promises one hierarchy of client errors. A stream that
   breaks raises urllib3's own; handlers that read a body raise what `json.loads` does.
2. `web_stranger`: `bot/verification.py:102` promises `UnverifiedRequestError`; a V2 token
   whose issuer has no account raises `UnknownBotAccountError`, answered 500. V1 converts.
3. `message_empty`: mention data may be an empty object (`models/message/mentions.py:185`);
   then converting the mention raises `AttributeError`, answered 500.
4. `message_logged`: with DEBUG on, the log line before validation indexes an attachment
   that the converter would have skipped (`logger.py:34`).
5. `sticker_again`: "Passed file is not PNG" (`image_validators.py:13`) is decided by eight
   bytes from wherever the buffer is (line 8). `add_sticker` leaves it at its end, so an
   image that is passed again after a failure is refused, and accepted the third time.

`bot/app_factory.py:24-25` says that sharing the storage makes tokens "cached once".
That is read as "in one place": threads that make a bot's first requests each miss,
fetch and store one. The bound that holds is `FetchedOncePerThread`.

`client/smartapps_api/smartapp_event.py:60` says that `jsonable_dict` removes empty dicts. It
removes those that it has emptied itself; one that was given empty is sent
(`models/api_base.py:20`), and `SentWhole` asks for it. `opts` comes out the same either way.

## 5. Proofs

TLAPS checks the theorems for all values of the constants that satisfy the modules'
named assumptions. None assumes a bound on threads, accounts or methods.

### `TokenCacheProofs` (from `TokenCacheAssumption`)

`TokenCacheAssumption`: accounts are bot ids, each has version V1 or V2, the bots
whose server retires (`Rotates`) or revokes (`Revokes`) tokens are accounts, and a miss is
no credential.

`FetchedOncePerThread` is not inductive: from a state with `writes = 1`, an empty cache
and the thread fetching, the next step breaks it. Nor is `OwnCredential`, since a held
token is only known to be the bot's if the numbers are known to have been issued. `IInv`
adds what excludes these: a write fills the cache for good (`WritesFill`), and who is
between miss and write has not written before (`FetchersNeverWrote`), over the types.

| Theorem | States |
|---|---|
| `Invariance` | `Spec => []IInv` |
| `TypeCorrect`, `CredentialsBelong`, `FetchBound` | `TypeOK`, `OwnCredential`, `FetchedOncePerThread` |
| `DeadForever` | `DeadTokenStaysDead`: no operation replaces a dead cached token |
| `Refinement` | `ImplementsLazyToken`: each step is a step of the register or stutters |
| `NoRaceCauses401` | `NoSpurious401`: no race makes a call fail for a bot whose server neither retires nor revokes tokens, nor for one with JWTs |

### `BotXCallProofs` (from `BotXCallAssumption`)

`BotXCallAssumption`: the threads are finitely many (connections are counted), the token
method is not streamed, answers are a status and a known kind of body, and every status
handler raises, whatever the body. TLC evaluates it for all 52 methods.

Threads share the pool only. The invariant is one formula `Local` of a thread's own
values and `Holders`, which says who has a connection. `Local` carries what the
properties leave out: a thread about to send a POST has not been received yet, a thread
that streams was not refused, an outcome "ok" is of an answer nobody refused.

| Theorem | States |
|---|---|
| `Invariance`, `TypeCorrect` | the invariant, the types |
| `PoolKept` | `ConnectionsReturned`, for any pool, retries and threads |
| `NoPostTwice` | `PostedOnce` |
| `RealResults` | `ResultsAreReal` |
| `HandledStatusRaises` | `DeletedFileRaises` |
| `Refinement` | `ImplementsRemoteCall`: each step is a step of `RemoteCall` or stutters |
| `BadAccounts` | `BadAccountReported`, if every method has the inherited handler for 401. That they have is what `call_table` checks |

### `WebhookProofs` (from `VerificationAssumption`, `WebhookAssumption`)

`VerificationAssumption`: accounts and strangers are different bots, a host is no bot id,
and exceptions have no bot's name. `WebhookAssumption`: the first account is one of them,
and requests are of their type.

The two lemmas on `VerifyToken` carry the weight. `Soundness`: it names an account only
for a token that this account's secret signed, that is valid now and names bot and
server as its version does. `Completeness`: it names the account for every such token.
`Local` then follows a request: what is past verification carries the verdict of the
very token it still has, what is past parsing matches it, what has not been dispatched
has not run.

| Theorem | States |
|---|---|
| `Invariance`, `TypeCorrect` | the invariant, the types |
| `EntitledRuns` | `RunsAreEntitled`, by `Soundness` |
| `TrueAnswers` | `AnswersTellTheTruth` |
| `ProperRequestsServed` | `ProperRequestServed`, by `Completeness` |

### `IncomingMessageProofs` (from `CommandsAssumption`)

`CommandsAssumption`: the commands that come are of their type; lists have any length.

The invariant is in named parts: the types; what an unparsed command has left untouched
(`BlankInv`); what the parse decided (`ParsedInv`); and what the loop over the
entities has done after `next - 1` turns (`LoopInv`: the mentions kept so far in order,
and the last reply and forward so far). `FirstKept` and `Decision` are facts of the
operators: which attachment is the first that is known, and what the union decides.

| Theorem | States |
|---|---|
| `Invariance` | the invariant |
| `MessagesAreFaithful`, `EditsAreWhole` | `MessageIsFaithful`, `EditIsWhole` |
| `NoveltyIsTolerated`, `RefusalsAreTrue` | `UnknownIsTolerated`, `RefusalTellsWhy` |

### `PayloadsProofs` and `OutgoingMessageProofs` (from `OutgoingMessageAssumption`)

`OutgoingMessageAssumption`: a text is a sequence without placeholders, as no bot writes
them; a markup has rows of buttons; metadata and files are JSON already; an option is
a leaf. TLC evaluates it on the run `edits`.

Two recursive functions had to be reasoned about for every input: `Picked`, which the
lists of a payload and the tags of a text go through, and the loop of
`find_and_replace_embed_mentions`. The induction theorems of the library cannot be
instantiated here, but the well-foundedness of `<` can: `LeastNumber` derives from it that
a set of numbers has a least one, `SetInduction` that a set with 0 that is closed under
`+ 1` is `Nat`, and `Recursion` that a function defined by primitive recursion exists. On these
rest

* `PickedEnumerates`, `EnumerationUnique`, `PickedAll`: `Picked` lists the chosen items in
  their order, and there is one order only;
* `CleanedMade`, `CleanedAll`, `RemoveUndefinedJson`, `ListKept`: a call of `_remove_undefined`
  leaves no `Undefined` and brings nothing in, takes nothing from what has none, and
  keeps a list whose items stay;
* `NextReplaced`, `FindAndReplaceEmbeds`: after n turns of the loop the first n tags are
  placeholders and nothing else has changed. `str.replace(..., 1)` takes the *first* equal
  fragment; it is the right one because every earlier equal tag is a placeholder by
  then. That argument is the invariant `ReplacedUpTo`;
* `PayloadBrings`: what the cleaned payload of any call brings to BotX, field by field,
  also when its `content` was dropped as a whole.

The invariant `IInv` of `OutgoingMessage` says that a request under way, that of a waiting
call or a late one, carries the cleaned payload of its own call (`Carried`), that an edit is of a message that is there, and that
every message is matched. `MentionsMatchText` alone is not inductive: a request under way
could carry a text with the mentions of another.

| Theorem | States |
|---|---|
| `MessagesInductive` | the invariant |
| `MentionsFollowText`, `PostsAreJson` | `MentionsMatchText`, `PostedIsJson` |
| `TextsReadAsWritten`, `EditsChangeWhatIsGiven` | `TextReadsAsWritten`, `EditChangesWhatIsGiven`: a request that is taken, in time or late, is stored by that very step (`TakenIsStored`) |

### `ClientCallsProofs`

Each part rests on the assumption of its module: the user is no thread and `NoChat` nobody's
name; packs are a finite set of numbers and a page holds at least one; the bounds are numbers;
files are sequences of chunks.

| Theorem | States | By |
|---|---|---|
| `ChatNotDoubled` | `NoNeedlessChat` | a thread that goes on to create has found no chat, so none has lasted since its call began |
| `AtMostOneChatEach` | `OneChatPerMaker`, for any number of threads: of the chats made in time, each thread has one at most | a thread about to create has none left that it made in time: it would have been found, and what comes during its call is late |
| `NoLastingPackMissed` | `LastingPacksGiven` | every lasting pack is given, on the page in hand, or after the cursor |
| `PacksComeInOrder` | `PacksInOrder` | what is given comes before what is on the page, which comes before what the cursor leaves |
| `QuietEndsAreWhole` | `QuietEndIsWhole` | a generator is only made of a complete file, and rows taken were good |
| `NoDirectoryLeft` | `OnlyOwnDirectory` | the two ways out of a block both remove the directory |
| `DownloadsAreWhole` | `DownloadedWhole`, also of a retry in the half-written buffer of one that broke | a download that began at the start, where there was no more than the file, has replaced the first chunks by those it fetched (`OverwriteOne`); `Sticker.download` replaces them at once (`OverwriteAll`) |
| `SentFilesAreWhole` | `SentFileIsWhole` | a rewound buffer is at its beginning, and reading from there is reading all (`ReadFromStart`) |

### `ClientOperationsProofs` (from `MarkupRowsAssumption`, `SmartAppsAssumption` and the above)

`MarkupRowsAssumption`: buttons and rows, markups and lists have different names.
`SmartAppsAssumption`: files come as sequences of objects of leaves, the caller's objects
are JSON of at most five levels.

| Theorem | States | By |
|---|---|---|
| `MarkupsAreTheirOwn` | `NoForeignButtons` | a button stays in a row of the markup it was added to; a row that the library made and no caller has handed on is in that markup's list and in no other; a markup's list is its own or the caller's |
| `FilesComeBack` | `FilesSurvive` | a file in the bot's hands is one that conversion and cleaning give back as it was, and the list on the wire was made of such files |
| `NothingLeftOut` | `SentWhole` | `TopCleaned`: the cleaning keeps every field that was given |
| `ClientKeepsPromises` | all eleven safety properties of the run `client`, of the specification that is checked | the theorems of the parts; that the client is made of their specifications (`ClientImplements`) holds by construction, as a step of one leaves the variables of the others alone |

### Only model-checked

* Liveness (`CallsEnd`, `PoolNeverStalls`, `RequestsAnswered`, `LoopEnds`): TLAPS does not prove
  properties under fairness.
* That the tables of `ApiMethods` have the properties the theorems assume.

## 6. Not modelled, and why

* The plain fields of system events, users, chats, calls and conferences: copied one by
  one, of no state. Where an unknown value is refused is in `IncomingMessage`; the member
  lists of `chat_info` and `personal_chat` are parsed as part of an answer, which
  `Answers` takes as good or bad.
* The status menu: a static table. The `/status` endpoint is in `Webhook`.
* The payloads of the API methods of one call, other than messages and SmartApp events:
  an argument each, no state. The manifest drops its other parts when neither
  `web_layout` nor `unread_counter` is given (`smartapp_manifest.py:72`), and the validators
  of `create_chat` never run, for payloads are made with `model_construct`
  (`api_base.py:69`): both are conditions over the arguments of one call.
* The sender and the file data of an incoming message.
* The 60 seconds of a V2 token (`auth.py:22-32`) against waits and two clocks: nothing in
  the code reacts to time, and how long a wait lasts is the application's pool's affair.
  `NoSpurious401` is about races, not about lifetimes.
* That a callback may come before `send_message` returns (`client/client.py:394`): the
  library correlates nothing, so no state of it could be wrong.
* Names of mentions with a line end: the tag is sent as it is (`models/message/mentions.py:322`),
  which `TextReadsAsWritten` takes for plain text. No doc forbids or promises such names.
* Encodings of bodies other than "is it text", timeouts as numbers.
* Two threads in one buffer, in one markup, or in one generator: the objects are the
  caller's, and Python's own are no safer.
* The example, the tests, the scripts.

## 7. Plan and what is left of it

Done, in the order of importance: `TokenCache`, `BotXCall` with its refinement of `RemoteCall`,
`Verification` with `Webhook`, `IncomingMessage` with the system events, `OutgoingMessage`,
`PersonalChat`, `StickerPaging`, `UsersAsCsv`, `SmartApps`, `FileBuffers`, `MarkupRows`, each with
proofs. Every safety property that a passing run checks is a theorem too.

Left:

1. `BotApp`: composes a webhook thread, its use case and a call, for deployments in which
   BotX waits for a bot that waits for BotX (synchronous SmartApp events).
2. `JwtLifetime`: a clock per host, if the library should ever refresh a header.
3. Proofs: the facts about the tables of `ApiMethods` that `BotXCallProofs` assumes; that a call of
   `OutgoingMessage` which ends without success leaves every message as it was.
