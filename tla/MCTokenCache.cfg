\* Two threads; a's server retires and revokes tokens, b's keeps them, c has JWTs.
SPECIFICATION Spec
CONSTANTS
  t1 = t1
  t2 = t2
  NoToken = NoToken
  Threads = {t1, t2}
  BotIds = {"a", "b", "c", "stranger"}
  Accounts = {"a", "b", "c"}
  AuthVersion <- TwoVersions
  Rotates = {"a"}
  Revokes = {"a"}
  MaxIssued = 2
INVARIANT TypeOK
INVARIANT OwnCredential
INVARIANT FetchedOncePerThread
PROPERTY DeadTokenStaysDead
PROPERTY NoSpurious401
PROPERTY ImplementsLazyToken
