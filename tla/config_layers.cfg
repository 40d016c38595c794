SPECIFICATION Spec
CONSTANTS
  Users = {u1}
  Clients = {}
  Organizations = {o1}
  Nothing = Nothing
  star = star
  dash = dash
  stale = stale
  diversity = diversity
  Values = {star, dash, stale}
  Valid = {star, dash}
  BuiltIn = star
  Fields = {"german_gender_ending", "alternatives_max_count"}
  Categories = {bias}
  Advanced = {bias}
  Parents = {diversity}
  Parent <- Dimension
  Rules <- LayerRules
  KeyConfigs <- LayerKeys
  Deployments <- LayerDeployments
  Sents <- LayerSents
INVARIANTS Precedence CategoryPrecedence ForcesApply
