SPECIFICATION FairSpec
CONSTANTS
  Keys = {k1}
  Emails = {e1, e2}
  Configs = {c1}
  NoEmail = NoEmail
  NoConfig = NoConfig
  NoKey = NoKey
  DefaultKey = {k1}
  DefaultEmail = e1
  HmacInitial = {TRUE, FALSE}
  HmacChanges <- TurnedOn
  Workers = {w1}
  Clients = {a1, a2}
  Offered <- AnyRequest
  Attempts = 2
PROPERTIES ListedKeysResolve MintedKeysLeftAlone SyncEnds
