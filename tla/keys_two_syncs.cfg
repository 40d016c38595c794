SPECIFICATION Spec
CONSTANTS
  Keys = {k1, k2}
  Emails = {e1, e2}
  Configs = {c1}
  NoEmail = NoEmail
  NoConfig = NoConfig
  NoKey = NoKey
  DefaultKey = {}
  DefaultEmail = e1
  HmacInitial = {FALSE}
  HmacChanges = {}
  Workers = {w1, w2}
  Clients = {}
  Offered <- AnySync
  Attempts = 2
SYMMETRY Symmetry
INVARIANTS NoOrphanedKey
PROPERTIES Atomic
