\* The operations of the client that are more than one call; the caller of
\* users_as_csv stops after its last block.
SPECIFICATION ClientFairSpec
CONSTANTS
  t1 = t1
  t2 = t2
  c1 = c1
  c2 = c2
  c3 = c3
  png = png
  x = x
  y = y
  ChatThreads = {t1, t2}
  User = user
  ChatIds = {c1, c2, c3}
  NoChat = nochat
  Packs = {1, 2, 3, 4, 5}
  PageSize = 2
  MaxRows = 3
  MaxBlocks = 2
  FileLists <- SomeFileLists
  Objects <- SomeObjects
  Chunks = {png, x, y}
  RemoteFiles <- SomeRemoteFiles
  OwnFiles <- SomeOwnFiles
  PngHeads = {png}
  MaxImage = 2
  MaxData = 2
  Markups = {m1, m2}
  Buttons = {b1, b2}
  GivenRows = {r1, r2}
  GivenLists = {l1}
  Nobody = nobody
INVARIANT NoNeedlessChat
INVARIANT OneChatPerMaker
INVARIANT LastingPacksGiven
INVARIANT OnlyOwnDirectory
INVARIANT QuietEndIsWhole
INVARIANT FilesSurvive
INVARIANT SentWhole
INVARIANT DownloadedWhole
INVARIANT SentFileIsWhole
INVARIANT NoForeignButtons
PROPERTY PacksInOrder
PROPERTY LoopEnds
CHECK_DEADLOCK FALSE
