SPECIFICATION FairSpec
CONSTANTS
  Langs = {de, en}
  Requests = {r1, r2, r3}
  Nobody = Nobody
  Kinds <- AnyRoute
  MemoryZones = {TRUE, FALSE}
INVARIANTS DocsIntact
PROPERTIES CheckServed
