\* Two threads share a pool of one connection that retries once.
SPECIFICATION FairSpec
CONSTANTS
  t1 = t1
  t2 = t2
  NoAnswer = NoAnswer
  TokenMethod <- GetTokenMethod
  Threads = {t1, t2}
  Methods <- FewMethods
  AnswerSet <- FewAnswers
  PoolSize = 1
  Retries = 1
  FileSize = 1
INVARIANT TypeOK
INVARIANT ConnectionsReturned
INVARIANT PostedOnce
PROPERTY PoolNeverStalls
PROPERTY ImplementsRemoteCall
