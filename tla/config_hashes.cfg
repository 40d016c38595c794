SPECIFICATION Spec
CONSTANTS
  Users = {u1}
  Clients = {u1}
  Organizations = {o1}
  Nothing = Nothing
  star = star
  dash = dash
  stale = stale
  diversity = diversity
  Values = {star, dash, stale}
  Valid = {star, dash}
  BuiltIn = star
  Fields = {}
  Categories = {}
  Advanced = {}
  Parents = {}
  Parent <- Dimension
  Rules <- FewRules
  KeyConfigs <- FewKeys
  Deployments <- SettingsButLlm
  Sents <- NoSents
INVARIANTS UnchangedMeansCurrent
