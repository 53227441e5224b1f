\* Two bots of one server: every token, every body, and another thread at work.
SPECIFICATION FairSpec
CONSTANTS
  t1 = t1
  t2 = t2
  Garbled = Garbled
  NoRequest = NoRequest
  Threads = {t1, t2}
  Accounts = {"a", "b"}
  Strangers = {"stranger"}
  Host <- OneHost
  FirstAccount = "a"
  VerifyRequests = TRUE
  Requests <- EveryRequest
INVARIANT TypeOK
INVARIANT RunsAreEntitled
INVARIANT AnswersTellTheTruth
INVARIANT ProperRequestServed
PROPERTY RequestsAnswered
