SPECIFICATION Spec
CONSTANTS
  Keys = {k1}
  Emails = {e1, e2}
  Configs = {c1}
  NoEmail = NoEmail
  NoConfig = NoConfig
  NoKey = NoKey
  DefaultKey = {}
  DefaultEmail = e1
  HmacInitial = {FALSE}
  HmacChanges <- TurnedOn
  Workers = {w1}
  Clients = {}
  Offered <- AnySync
  Attempts = 2
PROPERTIES ListedKeysKeepWorking
