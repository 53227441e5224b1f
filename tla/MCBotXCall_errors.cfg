\* Does every failure reach the caller as a BaseClientError?
SPECIFICATION Spec
CONSTANTS
  t1 = t1
  t2 = t2
  NoAnswer = NoAnswer
  TokenMethod <- GetTokenMethod
  Threads = {t1}
  Methods <- FewMethods
  AnswerSet <- FewAnswers
  PoolSize = 1
  Retries = 0
  FileSize = 1
INVARIANT OnlyClientErrors
