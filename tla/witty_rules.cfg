SPECIFICATION FairSpec
CONSTANTS
  r1 = r1
  r2 = r2
  Requests = {r1, r2}
  Nobody = Nobody
  Langs = {"de", "en", "fr"}
  Checks <- SomeChecks
  Configs <- SomeConfigs
  Rules <- SomeRules
  WordTypes <- SomeTypes
  MemoryZones = {TRUE, FALSE}
INVARIANTS TypeOK ChecksKeepApart TokensMatchedOnce
PROPERTIES NothingPassedOver LoopEnds KeepsSessions
