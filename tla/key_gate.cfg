SPECIFICATION Spec
CONSTANTS
  Requests = {r1}
  Kids = {k1}
  Keys = {a}
  None = None
  GetTimeout = 1
  ReadTimeout = 1
  Backoff <- Sleeps
  MaxAges = {0, 1}
  DefaultTtl = 2
  LongestTtl = 2
  Users = {ann, bob}
  XKeys = {x1}
  Nobody = Nobody
  NoToken = NoToken
  Malformed = Malformed
  ann = ann
  bob = bob
  x1 = x1
  k1 = k1
  a = a
  b = b
  Calls <- SomeCalls
  Routes <- SomeRoutes
  PathRoutesMax = 2
  sso_configs <- SomeIssuers
  Deployments <- SomeDeployments
INVARIANTS ClosedByDefault PasswordSuffices OneUser KeysExpire RotationIsFollowed AnsweredInTime
