SPECIFICATION PartsSpec
CONSTANTS
  Docs = {1, 2}
  Texts = {1, 2}
  Models = {1, 2}
  MaxShifts = 2
  MaxEmbeds = 2
  MaxSearches = 1
  Stable = 2
  Attempts = 3
  Retries = 1
  BatchSize <- MCBatchSize
  Minima <- MCMinima
  MaxOdd = 1
  Reviews = {1, 2}
  Destinations = {1}
  MaxJobs = 2
  MaxOutside = 1
  Capital <- MCCapital
  Registry <- MCRegistry
  Dictionary <- MCDictionary
  Denylist <- MCDenylist
  Allowlist = {}
  Keywords <- MCKeywords
  Markers <- MCMarkers
  DeclarationWords <- MCDeclarationWords
  RealTexts <- MCRealTexts
  AgentEdits <- MCAgentEdits
INVARIANTS
  SearchIsTrustworthy
   CallsAreSeparate
  OneOperation OperatorDecides
  MirrorIsSound PatchMeansItsEdit OtherLinesStay SpellingsStay NewTextComesBack
PROPERTIES  JobEnds
