\* One thread, every API method, every answer; the pool retries once.
SPECIFICATION FairSpec
CONSTANTS
  t1 = t1
  t2 = t2
  NoAnswer = NoAnswer
  TokenMethod <- GetTokenMethod
  Threads = {t1}
  Methods <- ApiMethods
  AnswerSet <- EveryAnswer
  PoolSize = 1
  Retries = 1
  FileSize = 2
INVARIANT BadAccountReported
INVARIANT DeletedFileRaises
INVARIANT ResultsAreReal
PROPERTY CallsEnd
