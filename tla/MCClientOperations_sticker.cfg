\* An image that was read by an earlier call, and is given to add_sticker again.
SPECIFICATION ClientSpec
CONSTANTS
  t1 = t1
  t2 = t2
  c1 = c1
  c2 = c2
  c3 = c3
  png = png
  x = x
  y = y
  ChatThreads = {t1, t2}
  User = user
  ChatIds = {c1, c2, c3}
  NoChat = nochat
  Packs = {1, 2, 3, 4, 5}
  PageSize = 2
  MaxRows = 3
  MaxBlocks = 2
  FileLists <- SomeFileLists
  Objects <- SomeObjects
  Chunks = {png, x, y}
  RemoteFiles <- SomeRemoteFiles
  OwnFiles <- SomeOwnFiles
  PngHeads = {png}
  MaxImage = 2
  MaxData = 2
  Markups = {m1, m2}
  Buttons = {b1, b2}
  GivenRows = {r1, r2}
  GivenLists = {l1}
  Nobody = nobody
INVARIANT RefusedAsNoPng
CHECK_DEADLOCK FALSE
