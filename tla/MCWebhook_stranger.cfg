\* Is a request that fails verification always answered 401?
SPECIFICATION Spec
CONSTANTS
  t1 = t1
  t2 = t2
  Garbled = Garbled
  NoRequest = NoRequest
  Threads = {t1}
  Accounts = {"a"}
  Strangers = {"stranger"}
  Host <- OneHost
  FirstAccount = "a"
  VerifyRequests = TRUE
  Requests <- FewRequests
INVARIANT UnverifiedIs401
