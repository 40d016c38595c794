SPECIFICATION Spec
CONSTANTS
  Nothing = Nothing
  Wide = {"face"}
  Signs = {"tick"}
  Rules <- SomeRules
  ContextChecked <- SomeContextChecked
  CapitalOf <- SomeCapitals
  Blank = " "
  Spaces = {" ", "nl"}
  Newlines = {"nl"}
  SentenceMarks = {"."}
  Conjunctions = {"&"}
  FeminineWords = {"f"}
  InklusivumNouns = {"Z"}
  Defects <- SomeDefects
  OwnCategories <- SomeOwnCategories
  ParentOf <- SomeParents
  Entities <- SomeEntities
  Salutations = {"h"}
  FrenchFeminineNouns = {}
  WrittenEndings <- SomeEndings
  MasculineArticles = {"r"}
  CaseWindow = 2
  supported_langs = {"de", "en"}
  Predictions <- Predict
  InclusiveForms <- SomeInclusiveForms
  ArticleWords <- SomeArticleWords
  FrenchMasculine <- SomeMasculines
  FrenchFeminine <- SomeFeminines
  FrenchSuffixes = {"e"}
  IsFrenchWord <- IsWord
  Umlauts <- SomeUmlauts
  NounEntries <- SomeNouns
  Exceptions <- SomeExceptions
  NeutralNouns <- SomeNeutral
  NoPluralUmlaut = {"Bau"}
  LowerStems = {"lehr"}
  InklusivumPairs <- SomePairs
  NounConjunctions = {"und"}
  Spelled <- SomeSpelled
  GUARDRAIL_MAX_LENGTH = 5
  text_max_length = 3
  Note = "NOTE"
  GermanLine <- GermanLines
  FrenchLine <- FrenchLines
  BaseLine = "base"
  CONTEXT_RADIUS = 1
  Requests <- SomeRequests
  Inclusive = {"inclusive"}
  DefaultThreshold <- FirstFinding
  MaxResends = 2
INVARIANT LtAnswers

